---- MODULE Spec2Model ----
(***************************************************************************)
(* Review synchronisation engine of auto-gbp-review.                       *)
(*                                                                         *)
(* SyncService.SyncConnection (social_media sync service), the persistence *)
(* gateway DB (api_connections, synced_reviews, sync_logs) and the         *)
(* provider / encryptor boundary, modelled one persistence or provider     *)
(* call per step.  Every persistence call may fail (it returns an error),  *)
(* every provider call may fail or answer anything its contract allows.    *)
(* The Scheduler (Start, Stop, runSync and its batches of sync tasks)       *)
(* drives SyncConnection from its goroutines.                              *)
(***************************************************************************)
EXTENDS Integers, Sequences, FiniteSets, TLC

(***************************************************************************)
(* Bounds of the model.                                                    *)
(***************************************************************************)
\* SyncConnection calls started in one behaviour
MaxCalls == 2
\* longest list a FetchReviews call returns
MaxFetch == 2
\* persistence calls that return an error in one behaviour
MaxFaults == 2

\* largest SYNC_BATCH_SIZE a Scheduler is built with
MaxBatch == 2
\* Start calls on the Scheduler in one behaviour
MaxStarts == 2
\* runSync executions in progress at a time
MaxRuns == 2
\* rounds of the batch loop followed in one run
MaxRounds == 3

\* goroutines that may run SyncConnection
Procs == {1, 2}
\* the ones the one-call-at-a-time specification uses
SeqProcs == {1}

(***************************************************************************)
(* Constants of the program (models.go).                                   *)
(***************************************************************************)
PlatformGoogleBusiness == "google_business"
PlatformFacebook == "facebook"
PlatformInstagram == "instagram"

SyncStatusPending == "pending"
SyncStatusSyncing == "syncing"
SyncStatusCompleted == "completed"
SyncStatusFailed == "failed"

SyncTypeManual == "manual"
SyncTypeScheduled == "scheduled"

\* sync_logs.status values
LogStarted == "started"
LogCompleted == "completed"
LogFailed == "failed"

(***************************************************************************)
(* Input domains.                                                          *)
(***************************************************************************)
\* PlatformReviewID values a provider may return
ReviewIds == {"r1", "r2"}
\* contents of a fetched review: every content field of a Review carries it
Contents == {"v1", "v2"}
\* plaintext OAuth tokens
AccessTokens == {"at1", "at2"}
RefreshTokens == {"rt1", "rt2"}
\* a stored ciphertext no key of this deployment opens
CorruptCiphertext == "corrupt"

(***************************************************************************)
(* Errors.                                                                 *)
(***************************************************************************)
NoError == ""
ErrDB == "db error"
ErrNoRows == "sql: no rows in result set"
ErrDuplicateKey == "duplicate key value violates unique constraint"
ErrDecrypt == "cipher: message authentication failed"
ErrRefresh == "failed to refresh token"
ErrFetch == "failed to fetch reviews"
\* ErrInvalidToken.Error()
ErrInvalidToken == "invalid or expired access token"
\* ErrProviderNotFound.Error()
ErrProviderNotFound(platform) == "provider not found for platform: " \o platform

VARIABLES
    api_connections,  \* table api_connections: id -> row
    synced_reviews,   \* table synced_reviews: sequence of rows, row i has id i
    sync_logs,        \* table sync_logs: sequence of rows, row i has id i
    providers,        \* SyncService.providers: the registered platform names
    clock,            \* the time; time.Now() and CURRENT_TIMESTAMP advance it
    call,             \* per goroutine: the SyncConnection call it runs
    ncalls,           \* SyncConnection calls started so far
    faults,           \* persistence calls that returned an error so far
    scheduler,        \* the Scheduler: its fields and its two goroutines
    run,              \* per slot: a runSync in progress, or the last one
    task,             \* per goroutine: the sync task of a batch it runs
    enc               \* an AESEncryptor at work on one token

\* the state of the Scheduler
schedVars == <<scheduler, run, task>>

vars == <<api_connections, synced_reviews, sync_logs, providers, clock, call,
          ncalls, faults, scheduler, run, task, enc>>

(***************************************************************************)
(* TokenEncryptor, as SyncConnection uses it: Encrypt("") = "" and         *)
(* Decrypt("") = "", Decrypt opens what Encrypt sealed and fails on        *)
(* anything else.                                                          *)
(***************************************************************************)
Encrypt(plaintext) ==
    IF plaintext = "" THEN "" ELSE "enc:" \o plaintext

Plaintexts == AccessTokens \cup RefreshTokens

DecryptOK(ciphertext) ==
    ciphertext = "" \/ \E p \in Plaintexts : Encrypt(p) = ciphertext

Decrypt(ciphertext) ==
    IF ciphertext = "" THEN ""
    ELSE IF \E p \in Plaintexts : Encrypt(p) = ciphertext
         THEN CHOOSE p \in Plaintexts : Encrypt(p) = ciphertext
         ELSE ""

(***************************************************************************)
(* Records.                                                                *)
(***************************************************************************)
\* a Review returned by a provider
Review(id, v) ==
    [PlatformReviewID |-> id, AuthorName |-> v, AuthorPhotoURL |-> v,
     Rating |-> v, ReviewText |-> v, ReviewReply |-> v, ReviewedAt |-> v,
     Metadata |-> v]

Reviews == {Review(id, v) : id \in ReviewIds, v \in Contents}

RECURSIVE SeqsUpTo(_, _)
SeqsUpTo(S, n) ==
    IF n = 0 THEN {<<>>}
    ELSE LET shorter == SeqsUpTo(S, n - 1)
         IN  shorter \cup {Append(s, x) : s \in {t \in shorter : Len(t) = n - 1}, x \in S}

\* what FetchReviews may return
FetchResults == SeqsUpTo(Reviews, MaxFetch)

\* no TokenResponse
NoTokenResponse == [AccessToken |-> "", RefreshToken |-> ""]

\* a TokenResponse of RefreshToken
TokenResponses ==
    {[AccessToken |-> "at2", RefreshToken |-> rt] : rt \in {"", "rt2"}}

NoConn ==
    [ID |-> 0, MerchantID |-> 0, Platform |-> "", AccessToken |-> "",
     RefreshToken |-> "", TokenExpiresAt |-> 0, IsActive |-> FALSE,
     LastSyncAt |-> 0, SyncStatus |-> "", ErrorMessage |-> ""]

NoLog ==
    [ID |-> 0, APIConnectionID |-> 0, SyncType |-> "", Status |-> "",
     ReviewsFetched |-> 0, ReviewsAdded |-> 0, ReviewsUpdated |-> 0,
     ErrorMessage |-> "", StartedAt |-> 0, CompletedAt |-> 0]

NoStats ==
    [TotalFetched |-> 0, TotalAdded |-> 0, TotalUpdated |-> 0, Errors |-> <<>>]

NoReturn == [returned |-> FALSE, hasStats |-> FALSE, stats |-> NoStats, err |-> NoError]

\* ids of the rows of api_connections
ConnIds == {1, 2}

\* the connectionID arguments of SyncConnection: the rows, and an id with no row
ConnectionIDInputs == ConnIds \cup {0}

IdleCall ==
    [pc |-> "idle", connectionID |-> 0, syncType |-> "", conn |-> NoConn,
     log |-> NoLog, accessToken |-> "", reviews |-> <<>>, i |-> 0,
     existing |-> 0, lookupErr |-> FALSE, stats |-> NoStats, err |-> NoError,
     ret |-> NoReturn,
     \* what the call has done so far (read by the properties only)
     called |-> {}, validation |-> "", tokenResp |-> NoTokenResponse,
     since |-> 0, fetchToken |-> "",
     dbFailed |-> FALSE,
     logWrites |-> 0, logCreated |-> FALSE, outcomes |-> <<>>,
     finalWrite |-> "none",
     preConns |-> [id \in ConnIds |-> NoConn], preReviews |-> <<>>, preLogs |-> <<>>]

(***************************************************************************)
(* The persistence gateway (DB): each operator is the statement the method *)
(* runs, as a function of the table.                                       *)
(***************************************************************************)
\* UPDATE api_connections SET ... WHERE id = conn.ID: the whole record but
\* id, merchant_id and platform
UpdateAPIConnection(tbl, conn) ==
    IF conn.ID \in DOMAIN tbl
    THEN [tbl EXCEPT ![conn.ID] =
            [@ EXCEPT !.AccessToken = conn.AccessToken,
                      !.RefreshToken = conn.RefreshToken,
                      !.TokenExpiresAt = conn.TokenExpiresAt,
                      !.IsActive = conn.IsActive,
                      !.LastSyncAt = conn.LastSyncAt,
                      !.SyncStatus = conn.SyncStatus,
                      !.ErrorMessage = conn.ErrorMessage]]
    ELSE tbl

\* a SELECT that leaves out the rows marked syncing
GetAPIConnectionUnlessSyncing(tbl, connectionID) ==
    IF connectionID \in DOMAIN tbl /\ tbl[connectionID].SyncStatus # SyncStatusSyncing
    THEN [found |-> TRUE, conn |-> tbl[connectionID]]
    ELSE [found |-> FALSE, conn |-> NoConn]

\* SELECT ... FROM api_connections WHERE id = $1: the row whatever its
\* sync_status, sql.ErrNoRows when there is none
GetAPIConnection(tbl, connectionID) ==
    IF connectionID \in DOMAIN tbl
    THEN [found |-> TRUE, conn |-> tbl[connectionID]]
    ELSE [found |-> FALSE, conn |-> NoConn]

\* the ids of the rows with this key
RowsWithKey(tbl, platform, platformReviewID) ==
    {k \in 1..Len(tbl) : /\ tbl[k].Platform = platform
                         /\ tbl[k].PlatformReviewID = platformReviewID}

\* SELECT ... WHERE platform = $1 AND platform_review_id = $2: the id of the
\* row QueryRow scans, 0 when there is none (sql.ErrNoRows)
GetSyncedReviewByPlatformID(tbl, platform, platformReviewID) ==
    LET rows == RowsWithKey(tbl, platform, platformReviewID)
    IN  IF rows = {} THEN 0 ELSE CHOOSE k \in rows : \A j \in rows : k <= j

\* a table without the UNIQUE constraint
UniqueViolationNotEnforced(tbl, platform, platformReviewID) == FALSE

\* a constraint that lets a second row with the key in
UniqueViolationDeferred(tbl, platform, platformReviewID) ==
    Cardinality(RowsWithKey(tbl, platform, platformReviewID)) > 1

\* UNIQUE(platform, platform_review_id) of synced_reviews: whether the
\* INSERT of this key is refused
UniqueViolation(tbl, platform, platformReviewID) ==
    RowsWithKey(tbl, platform, platformReviewID) # {}

\* INSERT INTO synced_reviews ... RETURNING id
CreateSyncedReview(tbl, review) ==
    Append(tbl, [review EXCEPT !.ID = Len(tbl) + 1])

\* an UPDATE that leaves review_text out of its SET list
UpdateSyncedReviewWithoutText(tbl, review) ==
    IF review.ID \in 1..Len(tbl)
    THEN [tbl EXCEPT ![review.ID] =
            [@ EXCEPT !.AuthorName = review.AuthorName,
                      !.AuthorPhotoURL = review.AuthorPhotoURL,
                      !.Rating = review.Rating,
                      !.ReviewReply = review.ReviewReply,
                      !.IsVisible = review.IsVisible,
                      !.Metadata = review.Metadata]]
    ELSE tbl

\* an UPDATE that writes every column of the SyncedReview it is given
UpdateSyncedReviewWholeRow(tbl, review) ==
    IF review.ID \in 1..Len(tbl) THEN [tbl EXCEPT ![review.ID] = review] ELSE tbl

\* UPDATE synced_reviews SET author_name, author_photo_url, rating,
\* review_text, review_reply, is_visible, metadata WHERE id = review.ID
UpdateSyncedReview(tbl, review) ==
    IF review.ID \in 1..Len(tbl)
    THEN [tbl EXCEPT ![review.ID] =
            [@ EXCEPT !.AuthorName = review.AuthorName,
                      !.AuthorPhotoURL = review.AuthorPhotoURL,
                      !.Rating = review.Rating,
                      !.ReviewText = review.ReviewText,
                      !.ReviewReply = review.ReviewReply,
                      !.IsVisible = review.IsVisible,
                      !.Metadata = review.Metadata]]
    ELSE tbl

\* INSERT INTO sync_logs ... RETURNING id, started_at
CreateSyncLog(tbl, log, now) ==
    Append(tbl, [log EXCEPT !.ID = Len(tbl) + 1, !.StartedAt = now,
                            !.CompletedAt = 0])

\* UPDATE sync_logs SET status, reviews_fetched, reviews_added,
\* reviews_updated, error_message, completed_at WHERE id = log.ID
UpdateSyncLog(tbl, log) ==
    IF log.ID \in 1..Len(tbl)
    THEN [tbl EXCEPT ![log.ID] =
            [@ EXCEPT !.Status = log.Status,
                      !.ReviewsFetched = log.ReviewsFetched,
                      !.ReviewsAdded = log.ReviewsAdded,
                      !.ReviewsUpdated = log.ReviewsUpdated,
                      !.ErrorMessage = log.ErrorMessage,
                      !.CompletedAt = log.CompletedAt]]
    ELSE tbl

\* the outcomes of one persistence call: TRUE it succeeds, FALSE it
\* returns an error
DBOutcomes == IF faults < MaxFaults THEN {TRUE, FALSE} ELSE {TRUE}

Fault(ok) == faults' = IF ok THEN faults ELSE faults + 1

\* the SyncedReview SyncConnection builds from a fetched review
NewSyncedReview(conn, review) ==
    [ID |-> 0,
     MerchantID |-> conn.MerchantID,
     APIConnectionID |-> conn.ID,
     Platform |-> conn.Platform,
     PlatformReviewID |-> review.PlatformReviewID,
     AuthorName |-> review.AuthorName,
     AuthorPhotoURL |-> review.AuthorPhotoURL,
     Rating |-> review.Rating,
     ReviewText |-> review.ReviewText,
     ReviewReply |-> review.ReviewReply,
     ReviewedAt |-> review.ReviewedAt,
     IsVisible |-> TRUE,
     Metadata |-> review.Metadata]

\* stats that start from the number of stored rows
NewStatsCountingStored(reviews) ==
    [TotalFetched |-> Len(reviews), TotalAdded |-> 0,
     TotalUpdated |-> Len(synced_reviews), Errors |-> <<>>]

\* stats := &SyncStats{TotalFetched: len(reviews)}
NewStats(reviews) ==
    [TotalFetched |-> Len(reviews), TotalAdded |-> 0, TotalUpdated |-> 0,
     Errors |-> <<>>]

\* return stats, err
Returned(hasStats, stats, err) ==
    [returned |-> TRUE, hasStats |-> hasStats, stats |-> stats, err |-> err]

\* intervalHours := 6 and batchSize := 10, the defaults of NewScheduler
DefaultIntervalHours == 6
DefaultBatchSize == 10

\* NewScheduler for the SYNC_INTERVAL_HOURS and SYNC_BATCH_SIZE it parsed (or
\* the defaults): the interval in hours, the batch size as it is, not
\* running, stopChan made and open, no ticker yet.
\* warmup and periodic count the goroutines of Start that sleep before the
\* initial sync and that wait in the select; tick is the tick waiting in
\* ticker.C.  starts, closes and stops count the Start calls, the
\* close(s.stopChan) executions and the Stop calls that returned.
NewScheduler(intervalHours, batchSize) ==
    [isRunning |-> FALSE, interval |-> intervalHours, batchSize |-> batchSize,
     stopChan |-> "open",
     ticker |-> "none", tick |-> FALSE, warmup |-> 0, periodic |-> 0,
     panicked |-> FALSE, starts |-> 0, closes |-> 0, stops |-> 0]

\* no runSync has begun
NoRun ==
    [pc |-> "none", runner |-> "", connections |-> <<>>, i |-> 0, end |-> 0,
     batch |-> <<>>, results |-> <<>>, j |-> 0, successCount |-> 0,
     failCount |-> 0,
     \* what the run has done so far (read by the properties only)
     batches |-> <<>>, delivered |-> 0, calledIds |-> {},
     callsOf |-> [id \in ConnIds |-> 0], afterStop |-> FALSE, busy |-> {}]

\* the runSync executions the model follows at a time
RunSlots == 1..MaxRuns

\* no runSync has begun in any slot
NoRuns == [g \in RunSlots |-> NoRun]

\* a goroutine that runs no sync task
NoTask == [pc |-> "none", run |-> 0, connection |-> NoConn, batch |-> 0]

\* SyncResult
SyncResult(connectionID, hasStats, err, skipped) ==
    [ConnectionID |-> connectionID, hasStats |-> hasStats, Error |-> err,
     Skipped |-> skipped]

\* no AESEncryptor at work: the state of enc while the sync service and the
\* Scheduler are the subject
NoEncryption ==
    [pc |-> "none", key |-> <<>>, plaintext |-> <<>>, nonce |-> <<>>,
     sealed |-> <<>>, stored |-> <<>>, tamper |-> "none", out |-> <<>>,
     err |-> ""]

\* the credentials connection 1 may hold when the model starts: tokens as
\* OAuthCallback stores them, with or without a refresh token, or a
\* ciphertext written under another ENCRYPTION_KEY
InitCredentials ==
    {[AccessToken |-> Encrypt("at1"), RefreshToken |-> Encrypt("rt1")],
     [AccessToken |-> Encrypt("at1"), RefreshToken |-> ""],
     [AccessToken |-> CorruptCiphertext, RefreshToken |-> Encrypt("rt1")]}

\* the rows of api_connections when the model starts, as OAuthCallback
\* creates them (pending, never synced): connection 1 on a platform with a
\* registered provider, connection 2 on a platform with none
InitConnections(cred) ==
    [id \in ConnIds |->
        [ID |-> id,
         MerchantID |-> id,
         Platform |-> IF id = 1 THEN PlatformGoogleBusiness ELSE PlatformInstagram,
         AccessToken |-> cred.AccessToken,
         RefreshToken |-> cred.RefreshToken,
         TokenExpiresAt |-> 0,
         IsActive |-> TRUE,
         LastSyncAt |-> 0,
         SyncStatus |-> SyncStatusPending,
         ErrorMessage |-> ""]]

Init ==
    /\ \E cred \in InitCredentials : api_connections = InitConnections(cred)
    /\ synced_reviews = <<>>
    /\ sync_logs = <<>>
    /\ providers = {PlatformGoogleBusiness, PlatformFacebook}
    /\ clock = 0
    /\ call = [p \in Procs |-> IdleCall]
    /\ ncalls = 0
    /\ faults = 0
    /\ scheduler = NewScheduler(DefaultIntervalHours, DefaultBatchSize)
    /\ run = NoRuns
    /\ task = [p \in Procs |-> NoTask]
    /\ enc = NoEncryption

\* a lookup that finds a provider for every platform
ProviderAlwaysRegistered(platform) == TRUE

\* whether SyncService.providers holds a provider for the platform
ProviderRegistered(platform) == platform \in providers

\* conn.SyncStatus = SyncStatusSyncing
SyncingConnection(conn) == [conn EXCEPT !.SyncStatus = SyncStatusSyncing]

\* conn after a refresh: the encrypted new access token, the encrypted new
\* refresh token when the response carries one, the new expiry
RefreshedConnection(conn, tokenResp, expiresAt) ==
    [conn EXCEPT !.AccessToken = Encrypt(tokenResp.AccessToken),
                 !.RefreshToken = IF tokenResp.RefreshToken # ""
                                  THEN Encrypt(tokenResp.RefreshToken) ELSE @,
                 !.TokenExpiresAt = expiresAt]

\* a completion that leaves the last error message in place
CompletedConnectionKeepingError(conn, now) ==
    [conn EXCEPT !.LastSyncAt = now, !.SyncStatus = SyncStatusCompleted]

\* conn.LastSyncAt = &now; conn.SyncStatus = completed; conn.ErrorMessage = ""
CompletedConnection(conn, now) ==
    [conn EXCEPT !.LastSyncAt = now,
                 !.SyncStatus = SyncStatusCompleted,
                 !.ErrorMessage = ""]

\* log.Status = "completed", the counts of stats, log.CompletedAt = &now
CompletedLog(log, stats, now) ==
    [log EXCEPT !.Status = LogCompleted,
                !.ReviewsFetched = stats.TotalFetched,
                !.ReviewsAdded = stats.TotalAdded,
                !.ReviewsUpdated = stats.TotalUpdated,
                !.CompletedAt = now]

\* a failure handler that also wipes the stored access token
FailedConnectionClearingToken(conn, err) ==
    [conn EXCEPT !.SyncStatus = SyncStatusFailed, !.ErrorMessage = err,
                 !.AccessToken = ""]

\* handleSyncError: conn.SyncStatus = failed; conn.ErrorMessage = err.Error()
FailedConnection(conn, err) ==
    [conn EXCEPT !.SyncStatus = SyncStatusFailed, !.ErrorMessage = err]

\* handleSyncError: log.Status = "failed"; log.ErrorMessage = err.Error();
\* log.CompletedAt = &now
FailedLog(log, err, now) ==
    [log EXCEPT !.Status = LogFailed, !.ErrorMessage = err, !.CompletedAt = now]

\* an addition that counts the errors so far a second time
CountAddedAfterErrors(stats) ==
    [stats EXCEPT !.TotalAdded = @ + 1 + Len(stats.Errors)]

\* stats.TotalAdded++
CountAdded(stats) == [stats EXCEPT !.TotalAdded = @ + 1]

\* an update counted as an addition
CountUpdatedAsAdded(stats) == [stats EXCEPT !.TotalAdded = @ + 1]

\* stats.TotalUpdated++
CountUpdated(stats) == [stats EXCEPT !.TotalUpdated = @ + 1]

\* stats that take no note of the error
CountErrorDropped(stats, err) == stats

\* stats.Errors = append(stats.Errors, err)
CountError(stats, err) == [stats EXCEPT !.Errors = Append(@, err)]

\* the syncType argument: goroutine 1 serves the manual trigger
\* (TriggerSync, RunManualSync), every other one is a task of the scheduler
CallerSyncType(p) == IF p = 1 THEN SyncTypeManual ELSE SyncTypeScheduled

(***************************************************************************)
(* SyncService.SyncConnection, one step per persistence, provider or       *)
(* encryptor call.  call[p].pc is the call's position.                     *)
(***************************************************************************)
\* SyncConnection(connectionID, syncType) entered by goroutine p:
\* conn, err := s.db.GetAPIConnection(connectionID); on an error return nil, err
StartCall(p, connectionID, syncType) ==
    /\ call[p].pc = "idle"
    /\ ncalls < MaxCalls
    /\ ncalls' = ncalls + 1
    /\ \E ok \in DBOutcomes :
          LET c == [IdleCall EXCEPT !.connectionID = connectionID,
                                    !.syncType = syncType,
                                    !.preConns = api_connections,
                                    !.preReviews = synced_reviews,
                                    !.preLogs = sync_logs]
              got == GetAPIConnection(api_connections, connectionID)
          IN  /\ Fault(ok)
              /\ IF ok /\ got.found
                 THEN call' = [call EXCEPT ![p] =
                                 [c EXCEPT !.conn = got.conn,
                                           !.pc = "get_provider"]]
                 ELSE call' = [call EXCEPT ![p] =
                                 [c EXCEPT !.pc = "done",
                                           !.dbFailed = ~ok,
                                           !.ret = Returned(FALSE, NoStats,
                                                      IF ok THEN ErrNoRows ELSE ErrDB)]]
    /\ UNCHANGED <<api_connections, synced_reviews, sync_logs, providers, clock>>

\* a handler (TriggerSync, RunManualSync) calls SyncConnection with the
\* connection id of the request
GetConnection(p) ==
    /\ \E connectionID \in ConnectionIDInputs :
          StartCall(p, connectionID, CallerSyncType(p))
    /\ UNCHANGED <<schedVars, enc>>

\* provider, ok := s.GetProvider(conn.Platform); if !ok return ErrProviderNotFound
GetProvider(p) ==
    LET c == call[p]
    IN  /\ c.pc = "get_provider"
        /\ IF ProviderRegistered(c.conn.Platform)
           THEN call' = [call EXCEPT ![p] = [c EXCEPT !.pc = "create_log"]]
           ELSE call' = [call EXCEPT ![p] =
                           [c EXCEPT !.pc = "done",
                                     !.ret = Returned(FALSE, NoStats,
                                                ErrProviderNotFound(c.conn.Platform))]]
        /\ UNCHANGED <<api_connections, synced_reviews, sync_logs, providers,
                       clock, ncalls, faults>>
        /\ UNCHANGED <<schedVars, enc>>

\* a SyncLog that is always of type "manual"
NewSyncLogAlwaysManual(connectionID, syncType) ==
    [NoLog EXCEPT !.APIConnectionID = connectionID,
                  !.SyncType = SyncTypeManual,
                  !.Status = LogStarted]

\* log := &SyncLog{APIConnectionID: connectionID, SyncType: syncType,
\* Status: "started", StartedAt: time.Now()}
NewSyncLog(connectionID, syncType) ==
    [NoLog EXCEPT !.APIConnectionID = connectionID,
                  !.SyncType = syncType,
                  !.Status = LogStarted]

\* s.db.CreateSyncLog(log) with Status "started"; on an error return nil, err
CreateLog(p) ==
    LET c == call[p]
        log == NewSyncLog(c.connectionID, c.syncType)
    IN  /\ c.pc = "create_log"
        /\ \E ok \in DBOutcomes :
              /\ Fault(ok)
              /\ IF ok
                 THEN /\ clock' = clock + 1
                      /\ sync_logs' = CreateSyncLog(sync_logs, log, clock + 1)
                      /\ call' = [call EXCEPT ![p] =
                                    [c EXCEPT !.log = sync_logs'[Len(sync_logs')],
                                              !.logCreated = TRUE,
                                              !.pc = "mark_syncing"]]
                 ELSE /\ UNCHANGED <<clock, sync_logs>>
                      /\ call' = [call EXCEPT ![p] =
                                    [c EXCEPT !.pc = "done",
                                              !.dbFailed = TRUE,
                                              !.ret = Returned(FALSE, NoStats, ErrDB)]]
        /\ UNCHANGED <<api_connections, synced_reviews, providers, ncalls>>
        /\ UNCHANGED <<schedVars, enc>>

\* conn.SyncStatus = SyncStatusSyncing; s.db.UpdateAPIConnection(conn);
\* on an error return nil, err
MarkSyncing(p) ==
    LET c == call[p]
        conn == SyncingConnection(c.conn)
    IN  /\ c.pc = "mark_syncing"
        /\ \E ok \in DBOutcomes :
              /\ Fault(ok)
              /\ IF ok
                 THEN /\ api_connections' = UpdateAPIConnection(api_connections, conn)
                      /\ call' = [call EXCEPT ![p] =
                                    [c EXCEPT !.conn = conn, !.pc = "decrypt"]]
                 ELSE /\ UNCHANGED api_connections
                      /\ call' = [call EXCEPT ![p] =
                                    [c EXCEPT !.conn = conn,
                                              !.pc = "done",
                                              !.dbFailed = TRUE,
                                              !.ret = Returned(FALSE, NoStats, ErrDB)]]
        /\ UNCHANGED <<synced_reviews, sync_logs, providers, clock, ncalls>>
        /\ UNCHANGED <<schedVars, enc>>

\* accessToken, err := s.encryptor.Decrypt(conn.AccessToken); on an error
\* handleSyncError and return nil, err
DecryptAccessToken(p) ==
    LET c == call[p]
    IN  /\ c.pc = "decrypt"
        /\ IF DecryptOK(c.conn.AccessToken)
           THEN call' = [call EXCEPT ![p] =
                           [c EXCEPT !.accessToken = Decrypt(c.conn.AccessToken),
                                     !.called = @ \cup {"Decrypt"},
                                     !.pc = "validate"]]
           ELSE call' = [call EXCEPT ![p] =
                           [c EXCEPT !.err = ErrDecrypt,
                                     !.called = @ \cup {"Decrypt"},
                                     !.pc = "err_conn"]]
        /\ UNCHANGED <<api_connections, synced_reviews, sync_logs, providers,
                       clock, ncalls, faults>>
        /\ UNCHANGED <<schedVars, enc>>

\* what ValidateToken may return: true, false, or an error
ValidationAnswers == {"valid", "invalid", "error"}

\* a token check whose result is not looked at
AfterValidationUnchecked(answer, conn) == "fetch"

\* if err != nil || !valid: refresh when conn.RefreshToken != "", else fail;
\* otherwise go on to fetch
AfterValidation(answer, conn) ==
    IF answer = "valid" THEN "fetch"
    ELSE IF conn.RefreshToken # "" THEN "refresh"
    ELSE "err_conn"

\* valid, err := provider.ValidateToken(accessToken); if err != nil || !valid:
\* refresh when conn.RefreshToken != "", else fail with ErrInvalidToken
ValidateToken(p) ==
    LET c == call[p]
    IN  /\ c.pc = "validate"
        /\ \E answer \in ValidationAnswers :
              call' = [call EXCEPT ![p] =
                  [c EXCEPT !.called = @ \cup {"ValidateToken"},
                            !.validation = answer,
                            !.err = IF AfterValidation(answer, c.conn) = "err_conn"
                                    THEN ErrInvalidToken ELSE @,
                            !.pc = AfterValidation(answer, c.conn)]]
        /\ UNCHANGED <<api_connections, synced_reviews, sync_logs, providers,
                       clock, ncalls, faults>>
        /\ UNCHANGED <<schedVars, enc>>

\* refreshToken, _ := s.encryptor.Decrypt(conn.RefreshToken);
\* tokenResp, err := provider.RefreshToken(refreshToken); on an error
\* handleSyncError and return; else conn takes the encrypted new tokens
RefreshToken(p) ==
    LET c == call[p]
    IN  /\ c.pc = "refresh"
        /\ \/ call' = [call EXCEPT ![p] =
                         [c EXCEPT !.called = @ \cup {"Decrypt", "RefreshToken"},
                                   !.err = ErrRefresh,
                                   !.pc = "err_conn"]]
           \/ \E tokenResp \in TokenResponses :
                 call' = [call EXCEPT ![p] =
                     [c EXCEPT !.called = @ \cup {"Decrypt", "RefreshToken", "Encrypt"},
                               !.tokenResp = tokenResp,
                               !.accessToken = tokenResp.AccessToken,
                               !.conn = RefreshedConnection(@, tokenResp, clock + 1),
                               !.pc = "persist_tokens"]]
        /\ UNCHANGED <<api_connections, synced_reviews, sync_logs, providers,
                       clock, ncalls, faults>>
        /\ UNCHANGED <<schedVars, enc>>

\* s.db.UpdateAPIConnection(conn) after a refresh; its error is dropped
PersistTokens(p) ==
    LET c == call[p]
    IN  /\ c.pc = "persist_tokens"
        /\ \E ok \in DBOutcomes :
              /\ Fault(ok)
              /\ api_connections' = IF ok THEN UpdateAPIConnection(api_connections, c.conn)
                                    ELSE api_connections
              /\ call' = [call EXCEPT ![p] =
                            [c EXCEPT !.dbFailed = @ \/ ~ok, !.pc = "fetch"]]
        /\ UNCHANGED <<synced_reviews, sync_logs, providers, clock, ncalls>>
        /\ UNCHANGED <<schedVars, enc>>

\* since := *conn.LastSyncAt (zero when nil);
\* reviews, err := provider.FetchReviews(accessToken, since); on an error
\* handleSyncError and return; else stats := &SyncStats{TotalFetched: len(reviews)}
FetchReviews(p) ==
    LET c == call[p]
        asked == [c EXCEPT !.called = @ \cup {"FetchReviews"},
                           !.since = c.conn.LastSyncAt,
                           !.fetchToken = c.accessToken]
    IN  /\ c.pc = "fetch"
        /\ \/ call' = [call EXCEPT ![p] =
                         [asked EXCEPT !.err = ErrFetch, !.pc = "err_conn"]]
           \/ \E reviews \in FetchResults :
                 call' = [call EXCEPT ![p] =
                     [asked EXCEPT !.reviews = reviews,
                                   !.stats = NewStats(reviews),
                                   !.i = 1,
                                   !.pc = IF Len(reviews) = 0 THEN "finish_conn"
                                          ELSE "lookup"]]
        /\ UNCHANGED <<api_connections, synced_reviews, sync_logs, providers,
                       clock, ncalls, faults>>
        /\ UNCHANGED <<schedVars, enc>>

\* existing, err := s.db.GetSyncedReviewByPlatformID(conn.Platform, review.PlatformReviewID)
LookupReview(p) ==
    LET c == call[p]
        review == c.reviews[c.i]
    IN  /\ c.pc = "lookup"
        /\ \E ok \in DBOutcomes :
              /\ Fault(ok)
              /\ call' = [call EXCEPT ![p] =
                    [c EXCEPT !.existing =
                                  IF ok THEN GetSyncedReviewByPlatformID(synced_reviews,
                                                 c.conn.Platform, review.PlatformReviewID)
                                  ELSE 0,
                              !.lookupErr = ~ok,
                              !.dbFailed = @ \/ ~ok,
                              !.pc = "write"]]
        /\ UNCHANGED <<api_connections, synced_reviews, sync_logs, providers,
                       clock, ncalls>>
        /\ UNCHANGED <<schedVars, enc>>

\* the next position of the loop over reviews
AfterReview(c) ==
    IF c.i < Len(c.reviews) THEN "lookup" ELSE "finish_conn"

\* if err != nil || existing == nil: CreateSyncedReview, counted in TotalAdded;
\* else UpdateSyncedReview with the existing ID, counted in TotalUpdated;
\* an error of either is appended to stats.Errors
WriteReview(p) ==
    LET c == call[p]
        syncedReview == NewSyncedReview(c.conn, c.reviews[c.i])
        next == [c EXCEPT !.i = @ + 1, !.existing = 0, !.lookupErr = FALSE,
                          !.pc = AfterReview(c)]
        added == [next EXCEPT !.outcomes = Append(@, "added")]
        updated == [next EXCEPT !.outcomes = Append(@, "updated")]
        failed == [next EXCEPT !.outcomes = Append(@, "error"), !.dbFailed = TRUE]
    IN  /\ c.pc = "write"
        /\ \E ok \in DBOutcomes :
              /\ Fault(ok)
              /\ IF c.lookupErr \/ c.existing = 0
                 THEN IF ok /\ ~UniqueViolation(synced_reviews, syncedReview.Platform,
                                                syncedReview.PlatformReviewID)
                      THEN /\ synced_reviews' = CreateSyncedReview(synced_reviews, syncedReview)
                           /\ call' = [call EXCEPT ![p] =
                                 [added EXCEPT !.stats = CountAdded(@)]]
                      ELSE /\ UNCHANGED synced_reviews
                           /\ call' = [call EXCEPT ![p] =
                                 [failed EXCEPT !.stats =
                                     CountError(@, IF ok THEN ErrDuplicateKey ELSE ErrDB)]]
                 ELSE IF ok
                      THEN /\ synced_reviews' = UpdateSyncedReview(synced_reviews,
                                                    [syncedReview EXCEPT !.ID = c.existing])
                           /\ call' = [call EXCEPT ![p] =
                                 [updated EXCEPT !.stats = CountUpdated(@)]]
                      ELSE /\ UNCHANGED synced_reviews
                           /\ call' = [call EXCEPT ![p] =
                                 [failed EXCEPT !.stats = CountError(@, ErrDB)]]
        /\ UNCHANGED <<api_connections, sync_logs, providers, clock, ncalls>>
        /\ UNCHANGED <<schedVars, enc>>

\* now := time.Now(); conn.LastSyncAt = &now; conn.SyncStatus = completed;
\* conn.ErrorMessage = ""; s.db.UpdateAPIConnection(conn); on an error
\* return stats, err
FinishConnection(p) ==
    LET c == call[p]
        now == clock + 1
        conn == CompletedConnection(c.conn, now)
    IN  /\ c.pc = "finish_conn"
        /\ clock' = now
        /\ \E ok \in DBOutcomes :
              /\ Fault(ok)
              /\ IF ok
                 THEN /\ api_connections' = UpdateAPIConnection(api_connections, conn)
                      /\ call' = [call EXCEPT ![p] =
                                    [c EXCEPT !.conn = conn,
                                              !.finalWrite = "ok",
                                              !.pc = "finish_log"]]
                 ELSE /\ UNCHANGED api_connections
                      /\ call' = [call EXCEPT ![p] =
                                    [c EXCEPT !.conn = conn,
                                              !.finalWrite = "failed",
                                              !.dbFailed = TRUE,
                                              !.pc = "done",
                                              !.ret = Returned(TRUE, c.stats, ErrDB)]]
        /\ UNCHANGED <<synced_reviews, sync_logs, providers, ncalls>>
        /\ UNCHANGED <<schedVars, enc>>

\* log.Status = "completed", the counts of stats, log.CompletedAt = &now;
\* s.db.UpdateSyncLog(log), its error dropped; return stats, nil
FinishLog(p) ==
    LET c == call[p]
        log == CompletedLog(c.log, c.stats, c.conn.LastSyncAt)
    IN  /\ c.pc = "finish_log"
        /\ \E ok \in DBOutcomes :
              /\ Fault(ok)
              /\ sync_logs' = IF ok THEN UpdateSyncLog(sync_logs, log) ELSE sync_logs
              /\ call' = [call EXCEPT ![p] =
                            [c EXCEPT !.log = log,
                                      !.logWrites = IF ok THEN @ + 1 ELSE @,
                                      !.dbFailed = @ \/ ~ok,
                                      !.pc = "done",
                                      !.ret = Returned(TRUE, c.stats, NoError)]]
        /\ UNCHANGED <<api_connections, synced_reviews, providers, clock, ncalls>>
        /\ UNCHANGED <<schedVars, enc>>

\* handleSyncError, first half: conn.SyncStatus = failed,
\* conn.ErrorMessage = err.Error(); s.db.UpdateAPIConnection(conn), its
\* error dropped
HandleSyncErrorConnection(p) ==
    LET c == call[p]
        conn == FailedConnection(c.conn, c.err)
    IN  /\ c.pc = "err_conn"
        /\ \E ok \in DBOutcomes :
              /\ Fault(ok)
              /\ api_connections' = IF ok THEN UpdateAPIConnection(api_connections, conn)
                                    ELSE api_connections
              /\ call' = [call EXCEPT ![p] =
                            [c EXCEPT !.conn = conn,
                                      !.dbFailed = @ \/ ~ok,
                                      !.pc = "err_log"]]
        /\ UNCHANGED <<synced_reviews, sync_logs, providers, clock, ncalls>>
        /\ UNCHANGED <<schedVars, enc>>

\* handleSyncError, second half: now := time.Now(); log.Status = "failed",
\* log.ErrorMessage = err.Error(), log.CompletedAt = &now;
\* s.db.UpdateSyncLog(log), its error dropped; then return nil, err
HandleSyncErrorLog(p) ==
    LET c == call[p]
        now == clock + 1
        log == FailedLog(c.log, c.err, now)
    IN  /\ c.pc = "err_log"
        /\ clock' = now
        /\ \E ok \in DBOutcomes :
              /\ Fault(ok)
              /\ sync_logs' = IF ok THEN UpdateSyncLog(sync_logs, log) ELSE sync_logs
              /\ call' = [call EXCEPT ![p] =
                            [c EXCEPT !.log = log,
                                      !.logWrites = IF ok THEN @ + 1 ELSE @,
                                      !.dbFailed = @ \/ ~ok,
                                      !.pc = "done",
                                      !.ret = Returned(FALSE, NoStats, c.err)]]
        /\ UNCHANGED <<api_connections, synced_reviews, providers, ncalls>>
        /\ UNCHANGED <<schedVars, enc>>

\* the caller takes the result; the goroutine is free for another call
Return(p) ==
    /\ call[p].pc = "done"
    /\ call' = [call EXCEPT ![p] = IdleCall]
    /\ UNCHANGED <<api_connections, synced_reviews, sync_logs, providers,
                   clock, ncalls, faults>>
    /\ UNCHANGED <<schedVars, enc>>

\* the steps of a SyncConnection call once it holds the connection
SyncSteps(p) ==
    \/ GetProvider(p)
    \/ CreateLog(p)
    \/ MarkSyncing(p)
    \/ DecryptAccessToken(p)
    \/ ValidateToken(p)
    \/ RefreshToken(p)
    \/ PersistTokens(p)
    \/ FetchReviews(p)
    \/ LookupReview(p)
    \/ WriteReview(p)
    \/ FinishConnection(p)
    \/ FinishLog(p)
    \/ HandleSyncErrorConnection(p)
    \/ HandleSyncErrorLog(p)

SyncConnection(p) ==
    \/ GetConnection(p)
    \/ SyncSteps(p)
    \/ Return(p)

\* SyncConnection calls run one at a time
Next == \E p \in SeqProcs : SyncConnection(p)

Spec == Init /\ [][Next]_vars

(***************************************************************************)
(* Concurrent SyncConnection calls: a scheduled tick racing a manual       *)
(* trigger.  Both goroutines run SyncConnection, their steps interleave in *)
(* any order.  The persistence layer fails no call here but CreateSyncLog, *)
(* and a fetch returns at most one review, which is what a race on one     *)
(* review needs.                                                           *)
(***************************************************************************)
InitConcurrent ==
    /\ \E cred \in InitCredentials : api_connections = InitConnections(cred)
    /\ synced_reviews = <<>>
    /\ sync_logs = <<>>
    /\ providers = {PlatformGoogleBusiness, PlatformFacebook}
    /\ clock = 0
    /\ call = [p \in Procs |-> IdleCall]
    /\ ncalls = 0
    /\ faults = 0
    /\ scheduler = NewScheduler(DefaultIntervalHours, DefaultBatchSize)
    /\ run = NoRuns
    /\ task = [p \in Procs |-> NoTask]
    /\ enc = NoEncryption

NextConcurrent ==
    \E p \in Procs :
        \/ GetConnection(p) /\ faults' = faults
        \/ GetProvider(p)
        \/ CreateLog(p)
        \/ MarkSyncing(p) /\ faults' = faults
        \/ DecryptAccessToken(p)
        \/ ValidateToken(p)
        \/ RefreshToken(p)
        \/ PersistTokens(p) /\ faults' = faults
        \/ FetchReviews(p) /\ Len(call'[p].reviews) <= 1
        \/ LookupReview(p) /\ faults' = faults
        \/ WriteReview(p) /\ faults' = faults
        \/ FinishConnection(p) /\ faults' = faults
        \/ FinishLog(p) /\ faults' = faults
        \/ HandleSyncErrorConnection(p) /\ faults' = faults
        \/ HandleSyncErrorLog(p) /\ faults' = faults
        \/ Return(p)

SpecConcurrent == InitConcurrent /\ [][NextConcurrent]_vars

(***************************************************************************)
(* The Scheduler: Start, Stop, the warm-up goroutine, the periodic         *)
(* goroutine with its ticker, and runSync with one goroutine per           *)
(* connection of a batch.  Nothing in the code keeps two runSync apart: the *)
(* model follows MaxRuns of them at a time.  Loading the                   *)
(* active connections and entering SyncConnection may fail; the later      *)
(* persistence calls of a task succeed and a fetch returns at most one     *)
(* review, since a run sees of a task only its result.                     *)
(***************************************************************************)
\* time.NewTicker(d) panics unless d > 0
TickerPanics(interval) == interval <= 0

\* Start: returns when already running; else sets isRunning and makes a new
\* ticker, which panics on an interval that is not positive; then starts the
\* warm-up goroutine and the periodic goroutine
Start ==
    /\ ~scheduler.panicked
    /\ scheduler.starts < MaxStarts
    /\ scheduler' =
          IF scheduler.isRunning
          THEN [scheduler EXCEPT !.starts = @ + 1]
          ELSE IF TickerPanics(scheduler.interval)
          THEN [scheduler EXCEPT !.starts = @ + 1,
                                 !.isRunning = TRUE,
                                 !.panicked = TRUE]
          ELSE [scheduler EXCEPT !.starts = @ + 1,
                                 !.isRunning = TRUE,
                                 !.ticker = "ticking",
                                 !.tick = FALSE,
                                 !.warmup = @ + 1,
                                 !.periodic = @ + 1]
    /\ UNCHANGED <<enc, api_connections, synced_reviews, sync_logs, providers, clock,
                   call, ncalls, faults, run, task>>

\* Stop: returns when not running; else clears isRunning and closes
\* stopChan; closing a closed channel panics
Stop ==
    /\ ~scheduler.panicked
    /\ scheduler' =
          IF ~scheduler.isRunning
          THEN scheduler
          ELSE [scheduler EXCEPT !.isRunning = FALSE,
                                 !.closes = @ + 1,
                                 !.stopChan = "closed",
                                 !.panicked = (scheduler.stopChan = "closed")]
    /\ UNCHANGED <<enc, api_connections, synced_reviews, sync_logs, providers, clock,
                   call, ncalls, faults, run, task>>

\* the ticker sends a tick on ticker.C, a channel that holds one tick
TickerFires ==
    /\ ~scheduler.panicked
    /\ scheduler.ticker = "ticking"
    /\ ~scheduler.tick
    /\ scheduler' = [scheduler EXCEPT !.tick = TRUE]
    /\ UNCHANGED <<enc, api_connections, synced_reviews, sync_logs, providers, clock,
                   call, ncalls, faults, run, task>>

\* case <-s.stopChan of the periodic goroutine: s.ticker.Stop(); return
PeriodicStop ==
    /\ ~scheduler.panicked
    /\ scheduler.periodic > 0
    /\ scheduler.stopChan = "closed"
    /\ scheduler' = [scheduler EXCEPT !.periodic = @ - 1, !.ticker = "stopped"]
    /\ UNCHANGED <<enc, api_connections, synced_reviews, sync_logs, providers, clock,
                   call, ncalls, faults, run, task>>

\* the ids of the active connections
ActiveIds(tbl) == {id \in DOMAIN tbl : tbl[id].IsActive}

\* the active rows in every order
ActiveIdOrders(tbl) ==
    {s \in SeqsUpTo(DOMAIN tbl, Cardinality(DOMAIN tbl)) :
        /\ Len(s) = Cardinality(ActiveIds(tbl))
        /\ {s[k] : k \in 1..Len(s)} = ActiveIds(tbl)}

\* ORDER BY last_sync_at ASC as PostgreSQL sorts without NULLS FIRST: the
\* rows never synced come last
GetActiveConnectionsNullsLast(tbl) ==
    {[k \in 1..Len(ids) |-> tbl[ids[k]]] :
        ids \in {s \in ActiveIdOrders(tbl) :
                    \A a, b \in 1..Len(s) :
                       a < b => \/ tbl[s[b]].LastSyncAt = 0
                                \/ /\ tbl[s[a]].LastSyncAt # 0
                                   /\ tbl[s[a]].LastSyncAt <= tbl[s[b]].LastSyncAt}}

\* the results GetActiveConnections may return: the rows WHERE is_active,
\* ORDER BY last_sync_at ASC NULLS FIRST, rows of equal last_sync_at in any
\* order (a null last_sync_at is 0, and every time is later)
GetActiveConnections(tbl) ==
    {[k \in 1..Len(ids) |-> tbl[ids[k]]] :
        ids \in {s \in ActiveIdOrders(tbl) :
                    \A a, b \in 1..Len(s) :
                       a < b => tbl[s[a]].LastSyncAt <= tbl[s[b]].LastSyncAt}}

\* the loaded connections that are not marked syncing: the ones a run
\* calls SyncConnection for
NotSyncing(connections) ==
    {k \in 1..Len(connections) : connections[k].SyncStatus # SyncStatusSyncing}

\* Stop has signalled the stop channel and no Start has followed
Stopped == scheduler.stopChan = "closed" /\ ~scheduler.isRunning

\* the runSync of slot g is executing
RunInProgress(g) == run[g].pc \notin {"none", "finished"}

\* runSync is not executing
NoRunInProgress == \A g \in RunSlots : ~RunInProgress(g)

\* the slots that follow no run
FreeRunSlots == {g \in RunSlots : ~RunInProgress(g)}

\* the connections for which a SyncConnection call is in progress
BusyIds ==
    {call[p].connectionID : p \in {q \in Procs : call[q].pc \notin {"idle", "done"}}}

\* runSync up to the batch loop, called by the goroutine runner, whatever
\* other runSync is executing: connections, err := GetActiveConnections();
\* return on an error and on an empty list
BeginRun(runner) ==
    /\ FreeRunSlots # {}
    /\ LET g == CHOOSE g \in FreeRunSlots : \A h \in FreeRunSlots : g <= h
       IN  \E ok \in DBOutcomes :
              /\ Fault(ok)
              /\ IF ok
                 THEN \E connections \in GetActiveConnections(api_connections) :
                         /\ ncalls + Cardinality(NotSyncing(connections)) <= MaxCalls
                         /\ run' = [run EXCEPT ![g] = [NoRun EXCEPT
                                      !.runner = runner,
                                      !.connections = connections,
                                      !.afterStop = Stopped,
                                      !.busy = BusyIds,
                                      !.pc = IF Len(connections) = 0 THEN "return"
                                             ELSE "batch"]]
                 ELSE run' = [run EXCEPT ![g] = [NoRun EXCEPT
                                 !.runner = runner,
                                 !.afterStop = Stopped,
                                 !.busy = BusyIds,
                                 !.pc = "return"]]
    /\ UNCHANGED <<enc, api_connections, synced_reviews, sync_logs, providers, clock,
                   call, ncalls, task>>

\* the warm-up goroutine of Start: time.Sleep(30 * time.Second); s.runSync()
WarmupRun ==
    /\ ~scheduler.panicked
    /\ scheduler.warmup > 0
    /\ BeginRun("warmup")
    /\ scheduler' = [scheduler EXCEPT !.warmup = @ - 1]

\* case <-s.ticker.C of the periodic goroutine: s.runSync()
PeriodicTick ==
    /\ ~scheduler.panicked
    /\ scheduler.periodic > 0
    /\ scheduler.tick
    /\ BeginRun("periodic")
    /\ scheduler' = [scheduler EXCEPT !.tick = FALSE, !.periodic = @ - 1]

\* end := i + s.batchSize, cut to len(connections)
BatchEnd(i, batchSize, n) == IF i + batchSize > n THEN n ELSE i + batchSize

\* the goroutines that run nothing
FreeProcs == {p \in Procs : task[p].pc = "none" /\ call[p].pc = "idle"}

\* the k-th free goroutine
Slot(k) == CHOOSE p \in FreeProcs : Cardinality({q \in FreeProcs : q < p}) = k - 1

\* connections[i:end] panics when end < i
SlicePanics(i, end) == end < i

\* the batch loop: when i < len(connections), batch := connections[i:end]
\* (which may panic), a new results channel and one goroutine per
\* connection of the batch; else the loop is over and the totals are logged
RunBatch(g) ==
    /\ ~scheduler.panicked
    /\ run[g].pc = "batch"
    /\ IF run[g].i < Len(run[g].connections)
       THEN LET end == BatchEnd(run[g].i, scheduler.batchSize, Len(run[g].connections))
                batch == SubSeq(run[g].connections, run[g].i + 1, end)
            IN  IF SlicePanics(run[g].i, end)
                THEN /\ scheduler' = [scheduler EXCEPT !.panicked = TRUE]
                     /\ UNCHANGED <<run, task>>
                ELSE /\ Len(run[g].batches) < MaxRounds
                     /\ Cardinality(FreeProcs) >= Len(batch)
                     /\ task' = [p \in Procs |->
                                   IF \E k \in 1..Len(batch) : Slot(k) = p
                                   THEN [pc |-> "check",
                                         run |-> g,
                                         connection |->
                                             batch[CHOOSE k \in 1..Len(batch) : Slot(k) = p],
                                         batch |-> Len(run[g].batches) + 1]
                                   ELSE task[p]]
                     /\ run' = [run EXCEPT
                                  ![g].end = end,
                                  ![g].batch = batch,
                                  ![g].results = <<>>,
                                  ![g].j = 0,
                                  ![g].batches =
                                      Append(@, [k \in 1..Len(batch) |-> batch[k].ID]),
                                  ![g].pc = "collect"]
                     /\ UNCHANGED scheduler
       ELSE /\ run' = [run EXCEPT ![g].pc = "return"]
            /\ UNCHANGED <<scheduler, task>>
    /\ UNCHANGED <<enc, api_connections, synced_reviews, sync_logs, providers, clock,
                   call, ncalls, faults>>

\* runSync returns to its goroutine: the warm-up goroutine ends, the
\* periodic goroutine is back in its select
RunReturn(g) ==
    /\ ~scheduler.panicked
    /\ run[g].pc = "return"
    /\ run' = [run EXCEPT ![g].pc = "finished"]
    /\ scheduler' = IF run[g].runner = "periodic"
                    THEN [scheduler EXCEPT !.periodic = @ + 1]
                    ELSE scheduler
    /\ UNCHANGED <<enc, api_connections, synced_reviews, sync_logs, providers, clock,
                   call, ncalls, faults, task>>

\* a task whose connection was loaded as syncing: result.Skipped = true;
\* results <- result; return
TaskSkip(p) ==
    /\ ~scheduler.panicked
    /\ task[p].pc = "check"
    /\ task[p].connection.SyncStatus = SyncStatusSyncing
    /\ run' = [run EXCEPT ![task[p].run].results =
                  Append(@, SyncResult(task[p].connection.ID, FALSE, NoError, TRUE))]
    /\ task' = [task EXCEPT ![p] = NoTask]
    /\ UNCHANGED <<enc, api_connections, synced_reviews, sync_logs, providers, clock,
                   call, ncalls, faults, scheduler>>

\* a task calls s.syncService.SyncConnection(connection.ID, SyncTypeScheduled)
TaskSync(p) ==
    /\ ~scheduler.panicked
    /\ task[p].pc = "check"
    /\ task[p].connection.SyncStatus # SyncStatusSyncing
    /\ StartCall(p, task[p].connection.ID, SyncTypeScheduled)
    /\ task' = [task EXCEPT ![p].pc = "wait"]
    /\ run' = [run EXCEPT ![task[p].run].calledIds = @ \cup {task[p].connection.ID},
                           ![task[p].run].callsOf[task[p].connection.ID] = @ + 1]
    /\ UNCHANGED <<scheduler, enc>>

\* a task that calls SyncConnection again when it returned an error
AfterSyncRetrying(t, err) ==
    IF err # NoError THEN [t EXCEPT !.pc = "check"] ELSE NoTask

\* the goroutine of a task ends once it has sent its result, whatever
\* SyncConnection returned
AfterSync(t, err) == NoTask

\* SyncConnection has returned to the task: result.Error = err or
\* result.Stats = stats; results <- result
TaskReport(p) ==
    /\ ~scheduler.panicked
    /\ task[p].pc = "wait"
    /\ call[p].pc = "done"
    /\ run' = [run EXCEPT ![task[p].run].results =
                  Append(@, SyncResult(task[p].connection.ID,
                                       call[p].ret.err = NoError,
                                       call[p].ret.err, FALSE))]
    /\ task' = [task EXCEPT ![p] = AfterSync(task[p], call[p].ret.err)]
    /\ call' = [call EXCEPT ![p] = IdleCall]
    /\ UNCHANGED <<enc, api_connections, synced_reviews, sync_logs, providers, clock,
                   ncalls, faults, scheduler>>

\* a tally that counts a skipped connection as a success
TallyCountingSkipped(r, result) ==
    IF result.Error # NoError
    THEN [r EXCEPT !.failCount = @ + 1]
    ELSE [r EXCEPT !.successCount = @ + 1]

\* if result.Skipped continue; if result.Error != nil failCount++ else
\* successCount++
Tally(r, result) ==
    IF result.Skipped THEN r
    ELSE IF result.Error # NoError
         THEN [r EXCEPT !.failCount = @ + 1]
         ELSE [r EXCEPT !.successCount = @ + 1]

\* a collect loop that ends with the first result
BatchDrainedAtFirstResult(r) == r.j >= 1

\* the collect loop has run len(batch) times: j == len(batch)
BatchDrained(r) == r.j = Len(r.batch)

\* one round of the collect loop: result := <-results, then the tally
RunCollect(g) ==
    /\ ~scheduler.panicked
    /\ run[g].pc = "collect"
    /\ ~BatchDrained(run[g])
    /\ Len(run[g].results) > 0
    /\ run' = [run EXCEPT ![g] =
                  [Tally(run[g], Head(run[g].results)) EXCEPT
                      !.results = Tail(run[g].results),
                      !.j = @ + 1,
                      !.delivered = @ + 1]]
    /\ UNCHANGED <<enc, api_connections, synced_reviews, sync_logs, providers, clock,
                   call, ncalls, faults, scheduler, task>>

\* a loop increment that moves on by one connection
NextBatchStartByOne(r) == r.i + 1

\* i += s.batchSize
NextBatchStart(r) == r.i + scheduler.batchSize

\* the collect loop is over: the pause between batches, then i += s.batchSize
RunAdvance(g) ==
    /\ ~scheduler.panicked
    /\ run[g].pc = "collect"
    /\ BatchDrained(run[g])
    /\ run' = [run EXCEPT ![g].i = NextBatchStart(run[g]), ![g].pc = "batch"]
    /\ UNCHANGED <<enc, api_connections, synced_reviews, sync_logs, providers, clock,
                   call, ncalls, faults, scheduler, task>>

\* Start as NewSocialMediaHandlers calls it on the new Scheduler
Started(sched) ==
    [sched EXCEPT !.starts = 1, !.isRunning = TRUE, !.ticker = "ticking",
                  !.warmup = 1, !.periodic = 1]

\* the latest time of a sync that completed before the program started
MaxPast == 2

\* the last_sync_at of the two connections when the program starts: neither
\* ever synced; the first synced and the second never; both synced in an
\* earlier life of the program, the second before the first
LastSyncTimes == {<<0, 0>>, <<MaxPast - 1, 0>>, <<MaxPast, MaxPast - 1>>}

\* the connections a run may find: valid stored tokens, each connection
\* active or not, synced before or never, the first one possibly marked
\* syncing by a call in another process
InitScheduledConnections ==
    {[id \in ConnIds |->
         [InitConnections([AccessToken |-> Encrypt("at1"),
                           RefreshToken |-> Encrypt("rt1")])[id] EXCEPT
             !.IsActive = active[id],
             !.LastSyncAt = last[id],
             !.SyncStatus = IF id = 1 /\ status = SyncStatusSyncing THEN status
                            ELSE IF last[id] # 0 THEN SyncStatusCompleted
                            ELSE @]] :
        active \in [ConnIds -> BOOLEAN],
        last \in LastSyncTimes,
        status \in {SyncStatusPending, SyncStatusSyncing}}

\* the program once NewSocialMediaHandlers has built and started the
\* Scheduler, with the batch size of the environment
InitRuns ==
    /\ api_connections \in InitScheduledConnections
    /\ synced_reviews = <<>>
    /\ sync_logs = <<>>
    /\ providers = {PlatformGoogleBusiness, PlatformFacebook}
    /\ clock = MaxPast
    /\ call = [p \in Procs |-> IdleCall]
    /\ ncalls = 0
    /\ faults = 0
    /\ \E batchSize \in 1..MaxBatch : scheduler = Started(NewScheduler(DefaultIntervalHours, batchSize))
    /\ run = NoRuns
    /\ task = [p \in Procs |-> NoTask]
    /\ enc = NoEncryption

\* the scheduled runs of the started Scheduler, which nothing stops,
\* followed one run at a time
NextRuns ==
    \/ TickerFires
    \/ NoRunInProgress /\ WarmupRun
    \/ NoRunInProgress /\ PeriodicTick
    \/ \E g \in RunSlots :
          \/ RunBatch(g)
          \/ RunCollect(g)
          \/ RunAdvance(g)
          \/ RunReturn(g)
    \/ \E p \in Procs :
          \/ TaskSkip(p)
          \/ TaskSync(p)
          \/ TaskReport(p)
          \/ GetProvider(p)
          \/ CreateLog(p) /\ faults' = faults
          \/ MarkSyncing(p) /\ faults' = faults
          \/ DecryptAccessToken(p)
          \/ ValidateToken(p)
          \/ RefreshToken(p)
          \/ PersistTokens(p) /\ faults' = faults
          \/ FetchReviews(p) /\ Len(call'[p].reviews) <= 1
          \/ LookupReview(p) /\ faults' = faults
          \/ WriteReview(p) /\ faults' = faults
          \/ FinishConnection(p) /\ faults' = faults
          \/ FinishLog(p) /\ faults' = faults
          \/ HandleSyncErrorConnection(p) /\ faults' = faults
          \/ HandleSyncErrorLog(p) /\ faults' = faults

SpecRuns == InitRuns /\ [][NextRuns]_vars

\* the connections of the Start and Stop specification: only connections
\* of the platform without provider are active, their tasks fail at once
InitIdleConnections ==
    {[id \in ConnIds |->
         [InitConnections([AccessToken |-> Encrypt("at1"),
                           RefreshToken |-> Encrypt("rt1")])[id] EXCEPT
             !.IsActive = (id # 1 /\ active)]] :
        active \in BOOLEAN}

\* a new Scheduler, not started
InitScheduler ==
    /\ api_connections \in InitIdleConnections
    /\ synced_reviews = <<>>
    /\ sync_logs = <<>>
    /\ providers = {PlatformGoogleBusiness, PlatformFacebook}
    /\ clock = 0
    /\ call = [p \in Procs |-> IdleCall]
    /\ ncalls = 0
    /\ faults = 0
    /\ \E batchSize \in 1..MaxBatch : scheduler = NewScheduler(DefaultIntervalHours, batchSize)
    /\ run = NoRuns
    /\ task = [p \in Procs |-> NoTask]
    /\ enc = NoEncryption

\* Start and Stop called in any order and at any time, with the goroutines
\* of Start and their runs
NextScheduler ==
    \/ Start
    \/ Stop
    \/ TickerFires
    \/ PeriodicStop
    \/ WarmupRun
    \/ PeriodicTick
    \/ \E g \in RunSlots :
          \/ RunBatch(g)
          \/ RunCollect(g)
          \/ RunAdvance(g)
          \/ RunReturn(g)
    \/ \E p \in Procs :
          \/ TaskSync(p)
          \/ TaskReport(p)
          \/ GetProvider(p)

SpecScheduler == InitScheduler /\ [][NextScheduler]_vars

\* the values of SYNC_INTERVAL_HOURS that Atoi parses: negative, zero, the
\* least positive one and the default.  NewTicker tests the sign of
\* time.Duration(intervalHours) * time.Hour, which is the sign of
\* intervalHours for these values
IntervalHours == {-1, 0, 1, DefaultIntervalHours}

\* the values of SYNC_BATCH_SIZE that Atoi parses: negative, zero, positive
BatchSizes == -1..MaxBatch

\* a new Scheduler, not started, of any environment NewScheduler accepts
InitConfigured ==
    /\ api_connections \in InitIdleConnections
    /\ synced_reviews = <<>>
    /\ sync_logs = <<>>
    /\ providers = {PlatformGoogleBusiness, PlatformFacebook}
    /\ clock = 0
    /\ call = [p \in Procs |-> IdleCall]
    /\ ncalls = 0
    /\ faults = 0
    /\ \E intervalHours \in IntervalHours, batchSize \in BatchSizes :
          scheduler = NewScheduler(intervalHours, batchSize)
    /\ run = NoRuns
    /\ task = [p \in Procs |-> NoTask]
    /\ enc = NoEncryption

\* Start on the new Scheduler, which nothing stops, with the goroutines of
\* Start and their runs
NextConfigured ==
    \/ Start
    \/ TickerFires
    \/ WarmupRun
    \/ PeriodicTick
    \/ \E g \in RunSlots :
          \/ RunBatch(g)
          \/ RunCollect(g)
          \/ RunAdvance(g)
          \/ RunReturn(g)
    \/ \E p \in Procs :
          \/ TaskSync(p)
          \/ TaskReport(p)
          \/ GetProvider(p)

SpecConfigured == InitConfigured /\ [][NextConfigured]_vars

\* the program once NewSocialMediaHandlers has built and started the
\* Scheduler, no connection marked syncing: no sync has run in this life of
\* the program and none was cut short in an earlier one
InitTicks ==
    /\ api_connections \in {c \in InitScheduledConnections :
                               \A id \in ConnIds : c[id].SyncStatus # SyncStatusSyncing}
    /\ synced_reviews = <<>>
    /\ sync_logs = <<>>
    /\ providers = {PlatformGoogleBusiness, PlatformFacebook}
    /\ clock = MaxPast
    /\ call = [p \in Procs |-> IdleCall]
    /\ ncalls = 0
    /\ faults = 0
    /\ \E batchSize \in 1..MaxBatch :
          scheduler = Started(NewScheduler(DefaultIntervalHours, batchSize))
    /\ run = NoRuns
    /\ task = [p \in Procs |-> NoTask]
    /\ enc = NoEncryption

\* the scheduled runs of the started Scheduler, tick after tick, followed
\* one run at a time; the write of the final status of a call may fail
NextTicks ==
    \/ TickerFires
    \/ NoRunInProgress /\ WarmupRun
    \/ NoRunInProgress /\ PeriodicTick
    \/ \E g \in RunSlots :
          \/ RunBatch(g)
          \/ RunCollect(g)
          \/ RunAdvance(g)
          \/ RunReturn(g)
    \/ \E p \in Procs :
          \/ TaskSkip(p)
          \/ TaskSync(p)
          \/ TaskReport(p)
          \/ GetProvider(p)
          \/ CreateLog(p) /\ faults' = faults
          \/ MarkSyncing(p) /\ faults' = faults
          \/ DecryptAccessToken(p)
          \/ ValidateToken(p)
          \/ RefreshToken(p)
          \/ PersistTokens(p) /\ faults' = faults
          \/ FetchReviews(p) /\ Len(call'[p].reviews) <= 1
          \/ LookupReview(p) /\ faults' = faults
          \/ WriteReview(p) /\ faults' = faults
          \/ FinishConnection(p)
          \/ FinishLog(p) /\ faults' = faults
          \/ HandleSyncErrorConnection(p)
          \/ HandleSyncErrorLog(p) /\ faults' = faults

SpecTicks == InitTicks /\ [][NextTicks]_vars

(***************************************************************************)
(* A sync over a table synced_reviews that already holds a row: of this    *)
(* merchant and connection, of a connection since deleted (the column is   *)
(* then NULL, here 0), or of another merchant who connected the same       *)
(* account; visible or hidden.  Calls run one at a time and no persistence *)
(* call fails.                                                             *)
(***************************************************************************)
\* merchant_id and api_connection_id of the stored row
StoredOwners == {<<1, 1>>, <<1, 0>>, <<2, 0>>}

\* the tables synced_reviews the sync may find
StoredReviews ==
    {<<[NewSyncedReview(
            [InitConnections(CHOOSE cred \in InitCredentials : TRUE)[1] EXCEPT
                !.MerchantID = owner[1], !.ID = owner[2]],
            Review("r1", v)) EXCEPT !.ID = 1, !.IsVisible = visible]>> :
        owner \in StoredOwners, v \in Contents, visible \in BOOLEAN}

InitResync ==
    /\ api_connections =
          [InitConnections([AccessToken |-> Encrypt("at1"),
                            RefreshToken |-> Encrypt("rt1")]) EXCEPT
              ![1].LastSyncAt = MaxPast, ![1].SyncStatus = SyncStatusCompleted]
    /\ synced_reviews \in StoredReviews
    /\ sync_logs = <<>>
    /\ providers = {PlatformGoogleBusiness, PlatformFacebook}
    /\ clock = MaxPast
    /\ call = [p \in Procs |-> IdleCall]
    /\ ncalls = 0
    /\ faults = 0
    /\ scheduler = NewScheduler(DefaultIntervalHours, DefaultBatchSize)
    /\ run = NoRuns
    /\ task = [p \in Procs |-> NoTask]
    /\ enc = NoEncryption

NextResync == \E p \in SeqProcs : SyncConnection(p) /\ faults' = faults

SpecResync == InitResync /\ [][NextResync]_vars

(***************************************************************************)
(* AESEncryptor: AES-256-GCM with a random nonce, the nonce prepended to   *)
(* the sealed bytes, the whole encoded in base64 for storage.  A Go string *)
(* is a sequence of bytes.  A byte of a base64 text is modelled by its     *)
(* class for the decoder: 0..63 the alphabet (by value), PadChar '=',      *)
(* NewlineChar '\r' or '\n' (which the decoder ignores), OtherChar every   *)
(* other byte.                                                             *)
(***************************************************************************)
MaxPlainLen == 3

\* the key length NewAESEncryptor asks for
KeySize == 32
\* gcm.NonceSize() and the length of the tag gcm.Seal appends
NonceSize == 12
TagSize == 16

PadChar == 64
NewlineChar == 65
OtherChar == 66
Base64Chars == 0..OtherChar

ErrKeySize == "encryption key must be 32 bytes for AES-256"
ErrBase64 == "illegal base64 data"
ErrTooShort == "ciphertext too short"
ErrOpen == "cipher: message authentication failed"

\* base64.StdEncoding.EncodeToString: three bytes make four characters, the
\* last group is padded with '='
EncodeToString(data) ==
    LET n == Len(data)
        B(i) == IF i <= n THEN data[i] ELSE 0
        Char(j) ==
            LET k == (j - 1) \div 4
                r == (j - 1) % 4
                avail == n - 3 * k
                b1 == B(3 * k + 1)
                b2 == B(3 * k + 2)
                b3 == B(3 * k + 3)
            IN  CASE r = 0 -> b1 \div 4
                  [] r = 1 -> (b1 % 4) * 16 + (b2 \div 16)
                  [] r = 2 -> IF avail < 2 THEN PadChar
                              ELSE (b2 % 16) * 4 + (b3 \div 64)
                  [] r = 3 -> IF avail < 3 THEN PadChar ELSE b3 % 64
    IN  [j \in 1..(4 * ((n + 2) \div 3)) |-> Char(j)]

\* base64.StdEncoding.DecodeString: newlines are skipped, the text is read
\* four characters at a time, '=' may only end the last group (one or two
\* of them), and the bits of the last character that belong to no byte are
\* not looked at (the encoding is not Strict)
DecodeString(s) ==
    LET t == SelectSeq(s, LAMBDA c : c # NewlineChar)
        n == Len(t)
        padLen == IF n >= 1 /\ t[n] = PadChar
                  THEN IF n >= 2 /\ t[n - 1] = PadChar THEN 2 ELSE 1
                  ELSE 0
        wellFormed == n % 4 = 0 /\ \A i \in 1..(n - padLen) : t[i] \in 0..63
        len == 3 * (n \div 4) - padLen
        Byte(i) ==
            LET k == (i - 1) \div 3
                r == (i - 1) % 3
                c1 == t[4 * k + 1]
                c2 == t[4 * k + 2]
                c3 == t[4 * k + 3]
                c4 == t[4 * k + 4]
            IN  CASE r = 0 -> c1 * 4 + (c2 \div 16)
                  [] r = 1 -> (c2 % 16) * 16 + (c3 \div 4)
                  [] r = 2 -> (c3 % 4) * 64 + c4
    IN  IF wellFormed
        THEN [ok |-> TRUE, data |-> [i \in 1..len |-> Byte(i)]]
        ELSE [ok |-> FALSE, data |-> <<>>]

RECURSIVE Xor(_, _)
\* the exclusive or of two bytes
Xor(a, b) ==
    IF a = 0 THEN b
    ELSE IF b = 0 THEN a
    ELSE ((a + b) % 2) + 2 * Xor(a \div 2, b \div 2)

\* the cipher block of aes.NewCipher(e.key) in counter mode: byte i of the
\* key stream of a nonce
KeyStream(key, nonce, i) ==
    (key[((i - 1) % KeySize) + 1] * 31
        + nonce[((i - 1) % NonceSize) + 1] * 17 + 101 * i) % 256

\* counter mode: the same operation encrypts and decrypts
XorKeyStream(key, nonce, bytes) ==
    [i \in 1..Len(bytes) |-> Xor(bytes[i], KeyStream(key, nonce, i))]

\* the field of the polynomial hash that stands for GHASH, and the hash key
\* the cipher derives from the key (never zero)
HashPrime == 32749
HashKeyBase == 4099
HashKey(key) ==
    1 + ((HashKeyBase + key[1] + 256 * key[KeySize]) % (HashPrime - 1))

RECURSIVE GHash(_, _, _)
\* the hash of the ciphertext bytes from i on and of their number
GHash(h, ct, i) ==
    IF i > Len(ct) THEN (Len(ct) * h) % HashPrime
    ELSE ((ct[i] + GHash(h, ct, i + 1)) * h) % HashPrime

\* the tag of GCM: the encrypted first counter block of the nonce, with the
\* hash of the ciphertext added in
Tag(key, nonce, ct) ==
    LET g == GHash(HashKey(key), ct, 1)
        Mask(i) == IF i <= NonceSize
                   THEN (nonce[i] + key[i]) % 256
                   ELSE key[i]
    IN  [i \in 1..TagSize |->
            CASE i = TagSize - 1 -> Xor(Mask(i), g \div 256)
              [] i = TagSize -> Xor(Mask(i), g % 256)
              [] OTHER -> Mask(i)]

\* gcm.Seal(dst, nonce, plaintext, nil): dst, then the encrypted bytes, then
\* the tag
Seal(dst, key, nonce, plaintext) ==
    LET ct == XorKeyStream(key, nonce, plaintext)
    IN  dst \o ct \o Tag(key, nonce, ct)

\* a cipher mode without authentication: the tag is dropped unread
OpenUnauthenticated(key, nonce, sealed) ==
    IF Len(sealed) < TagSize THEN [ok |-> FALSE, plaintext |-> <<>>]
    ELSE [ok |-> TRUE,
          plaintext |-> XorKeyStream(key, nonce,
                            SubSeq(sealed, 1, Len(sealed) - TagSize))]

\* gcm.Open(nil, nonce, sealed, nil): fails unless the last TagSize bytes
\* are the tag of the bytes before them
Open(key, nonce, sealed) ==
    LET n == Len(sealed) - TagSize
        ct == SubSeq(sealed, 1, n)
    IN  IF Len(sealed) < TagSize THEN [ok |-> FALSE, plaintext |-> <<>>]
        ELSE IF SubSeq(sealed, n + 1, Len(sealed)) # Tag(key, nonce, ct)
             THEN [ok |-> FALSE, plaintext |-> <<>>]
             ELSE [ok |-> TRUE, plaintext |-> XorKeyStream(key, nonce, ct)]

\* an Encrypt whose Seal does not prepend the nonce
AESEncryptWithoutNonce(key, plaintext, nonce) ==
    IF plaintext = <<>> THEN <<>>
    ELSE EncodeToString(Seal(<<>>, key, nonce, plaintext))

\* AESEncryptor.Encrypt, for the nonce rand.Reader gave
AESEncrypt(key, plaintext, nonce) ==
    IF plaintext = <<>> THEN <<>>
    ELSE EncodeToString(Seal(nonce, key, nonce, plaintext))

\* AESEncryptor.Decrypt: the plaintext and the error it returns
AESDecrypt(key, ciphertext) ==
    LET decoded == DecodeString(ciphertext)
        data == decoded.data
        opened == Open(key, SubSeq(data, 1, NonceSize),
                       SubSeq(data, NonceSize + 1, Len(data)))
    IN  IF ciphertext = <<>> THEN [plaintext |-> <<>>, err |-> NoError]
        ELSE IF ~decoded.ok THEN [plaintext |-> <<>>, err |-> ErrBase64]
        ELSE IF Len(data) < NonceSize
             THEN [plaintext |-> <<>>, err |-> ErrTooShort]
        ELSE IF ~opened.ok THEN [plaintext |-> <<>>, err |-> ErrOpen]
        ELSE [plaintext |-> opened.plaintext, err |-> NoError]

\* the inputs: keys of the right length and of wrong lengths, tokens of at
\* most MaxPlainLen bytes, nonces as rand.Reader may give them
ValidKeys == {[i \in 1..KeySize |-> (7 * i) % 256],
              [i \in 1..KeySize |-> (255 - 3 * i) % 256]}
InvalidKeys == {<<>>, [i \in 1..16 |-> i], [i \in 1..(KeySize + 1) |-> i]}
PlainBytes == {97, 255}
PlaintextInputs == SeqsUpTo(PlainBytes, MaxPlainLen)
Nonces == {[i \in 1..NonceSize |-> (11 * i) % 256],
           [i \in 1..NonceSize |-> (200 + 29 * i) % 256]}

\* everything but enc
syncVars == <<api_connections, synced_reviews, sync_logs, providers, clock,
              call, ncalls, faults, scheduler, run, task>>

\* NewAESEncryptor(key)
NewAESEncryptor ==
    /\ enc.pc = "new"
    /\ IF Len(enc.key) # KeySize
       THEN enc' = [enc EXCEPT !.pc = "rejected", !.err = ErrKeySize]
       ELSE enc' = [enc EXCEPT !.pc = "ready"]
    /\ UNCHANGED syncVars

\* e.Encrypt(plaintext), and the result stored
EncryptToken ==
    /\ enc.pc = "ready"
    /\ \E nonce \in Nonces :
          LET ciphertext == AESEncrypt(enc.key, enc.plaintext, nonce)
          IN  enc' = [enc EXCEPT !.pc = "stored",
                                 !.nonce = IF enc.plaintext = <<>> THEN <<>>
                                           ELSE nonce,
                                 !.sealed = ciphertext,
                                 !.stored = ciphertext]
    /\ UNCHANGED syncVars

\* one byte of the stored ciphertext changes
MutateStored ==
    /\ enc.pc = "stored"
    /\ enc.tamper = "none"
    /\ \E i \in 1..Len(enc.stored) :
          \E c \in Base64Chars \ {enc.stored[i]} :
             enc' = [enc EXCEPT !.stored = [enc.stored EXCEPT ![i] = c],
                                !.tamper = "mutated"]
    /\ UNCHANGED syncVars

\* the stored ciphertext loses its end
TruncateStored ==
    /\ enc.pc = "stored"
    /\ enc.tamper = "none"
    /\ \E n \in 0..(Len(enc.stored) - 1) :
          enc' = [enc EXCEPT !.stored = SubSeq(enc.stored, 1, n),
                             !.tamper = "truncated"]
    /\ UNCHANGED syncVars

\* e.Decrypt(stored)
DecryptToken ==
    /\ enc.pc = "stored"
    /\ LET result == AESDecrypt(enc.key, enc.stored)
       IN  enc' = [enc EXCEPT !.pc = "decrypted",
                              !.out = result.plaintext,
                              !.err = result.err]
    /\ UNCHANGED syncVars

InitEncryptor ==
    /\ api_connections = InitConnections(CHOOSE cred \in InitCredentials : TRUE)
    /\ synced_reviews = <<>>
    /\ sync_logs = <<>>
    /\ providers = {PlatformGoogleBusiness, PlatformFacebook}
    /\ clock = 0
    /\ call = [p \in Procs |-> IdleCall]
    /\ ncalls = 0
    /\ faults = 0
    /\ scheduler = NewScheduler(DefaultIntervalHours, DefaultBatchSize)
    /\ run = NoRuns
    /\ task = [p \in Procs |-> NoTask]
    /\ \E key \in ValidKeys \cup InvalidKeys, plaintext \in PlaintextInputs :
          enc = [NoEncryption EXCEPT !.pc = "new", !.key = key,
                                     !.plaintext = plaintext]

NextEncryptor ==
    \/ NewAESEncryptor
    \/ EncryptToken
    \/ MutateStored
    \/ TruncateStored
    \/ DecryptToken

SpecEncryptor == InitEncryptor /\ [][NextEncryptor]_vars

(***************************************************************************)
(* Properties.                                                             *)
(***************************************************************************)
\* the call of goroutine p has returned
Done(p) == call[p].pc = "done"

\* the connection row a returned call was about
ConnOf(c) == api_connections[c.connectionID]

\* the ids of a fetch result are pairwise distinct
DistinctIds(reviews) ==
    \A i, j \in 1..Len(reviews) :
        reviews[i].PlatformReviewID = reviews[j].PlatformReviewID => i = j

\* the last review of the fetch result with this id
LastFetched(reviews, id) ==
    reviews[CHOOSE i \in 1..Len(reviews) :
                /\ reviews[i].PlatformReviewID = id
                /\ \A j \in (i + 1)..Len(reviews) : reviews[j].PlatformReviewID # id]

\* row k was stored before the call and the call fetched its key again with
\* another review text
Refetched(c, k) ==
    /\ k \in 1..Len(c.preReviews)
    /\ c.preReviews[k].Platform = c.conn.Platform
    /\ \E i \in 1..Len(c.reviews) :
          /\ c.reviews[i].PlatformReviewID = c.preReviews[k].PlatformReviewID
          /\ c.reviews[i].ReviewText # c.preReviews[k].ReviewText

\* one row holds the key of row k, it is row k, and it holds the fetched text
Upserted(c, k) ==
    /\ RowsWithKey(synced_reviews, c.preReviews[k].Platform,
                   c.preReviews[k].PlatformReviewID) = {k}
    /\ synced_reviews[k].ReviewText =
          LastFetched(c.reviews, c.preReviews[k].PlatformReviewID).ReviewText

\* no review of the fetch result with the key of row k ended in a per-item error
NoItemError(c, k) ==
    \A i \in 1..Len(c.reviews) :
        (c.reviews[i].PlatformReviewID = c.preReviews[k].PlatformReviewID
         /\ i \in 1..Len(c.outcomes)) => c.outcomes[i] # "error"

\* the fetched reviews whose key was not stored before the call
NewCount(c) ==
    Cardinality({i \in 1..Len(c.reviews) :
        RowsWithKey(c.preReviews, c.conn.Platform, c.reviews[i].PlatformReviewID) = {}})

\* C1: after any sequence of SyncConnection calls run one at a time the
\* store holds at most one SyncedReview per (platform, platform_review_id)
C1_NoDuplicateReviews ==
    \A i, j \in 1..Len(synced_reviews) :
        (/\ synced_reviews[i].Platform = synced_reviews[j].Platform
         /\ synced_reviews[i].PlatformReviewID = synced_reviews[j].PlatformReviewID)
        => i = j

\* a call has returned whose fetch result repeated one PlatformReviewID that
\* was stored before the call: both were updates and no row was added
C1_Witness ==
    \E p \in Procs :
        LET c == call[p]
        IN  /\ Done(p)
            /\ Len(c.reviews) = 2
            /\ c.reviews[1].PlatformReviewID = c.reviews[2].PlatformReviewID
            /\ RowsWithKey(c.preReviews, c.conn.Platform,
                           c.reviews[1].PlatformReviewID) # {}
            /\ c.ret.stats.TotalUpdated = 2
            /\ Len(synced_reviews) = Len(c.preReviews)

C3_StatsCounts ==
    \A p \in Procs :
        LET c == call[p]
        IN  (Done(p) /\ c.ret.hasStats /\ DistinctIds(c.reviews) /\ ~c.dbFailed)
            => /\ c.ret.stats.TotalFetched = Len(c.reviews)
               /\ c.ret.stats.TotalAdded = NewCount(c)
               /\ c.ret.stats.TotalUpdated = Len(c.reviews) - NewCount(c)

\* a call fetched two reviews, one new and one stored, and returned
\* Fetched 2, Added 1, Updated 1
C3_Witness ==
    \E p \in Procs :
        LET c == call[p]
        IN  /\ Done(p) /\ c.ret.hasStats /\ DistinctIds(c.reviews) /\ ~c.dbFailed
            /\ Len(c.reviews) = 2
            /\ NewCount(c) = 1
            /\ c.ret.stats.TotalFetched = 2
            /\ c.ret.stats.TotalAdded = 1
            /\ c.ret.stats.TotalUpdated = 1

\* C4: a call made after a successful sync of the connection, to which the
\* platform returns no review, returns TotalAdded = 0 and TotalUpdated = 0
\* and leaves the stored rows as they were, with no duplicate key
C4_ResyncIdempotent ==
    \A p \in Procs :
        LET c == call[p]
        IN  (/\ Done(p)
             /\ c.ret.hasStats
             /\ c.preConns[c.connectionID].SyncStatus = SyncStatusCompleted
             /\ c.reviews = <<>>)
            => /\ c.ret.stats.TotalAdded = 0
               /\ c.ret.stats.TotalUpdated = 0
               /\ synced_reviews = c.preReviews
               /\ \A i, j \in 1..Len(synced_reviews) :
                     (/\ synced_reviews[i].Platform = synced_reviews[j].Platform
                      /\ synced_reviews[i].PlatformReviewID =
                            synced_reviews[j].PlatformReviewID) => i = j

\* a second sync of a connection whose first sync stored reviews has
\* returned without error and fetched nothing
C4_Witness ==
    \E p \in Procs :
        LET c == call[p]
        IN  /\ Done(p) /\ c.ret.hasStats /\ c.ret.err = NoError
            /\ c.preConns[c.connectionID].SyncStatus = SyncStatusCompleted
            /\ c.reviews = <<>>
            /\ Len(c.preReviews) > 0
            /\ c.ret.stats.TotalFetched = 0

\* the errors of access-token decryption, token refresh and FetchReviews
FatalErrors == {ErrDecrypt, ErrRefresh, ErrFetch}

\* the row of the SyncLog a call created
LogOf(c) == sync_logs[c.log.ID]

\* C5: whenever decryption, refresh or fetch fails, the call returns that
\* error, and when it returns the persisted connection is "failed" with the
\* error text and the SyncLog of the call is "failed" with the same text and
\* completed_at set
C5_FailureRecorded ==
    \A p \in Procs :
        LET c == call[p]
        IN  (Done(p) /\ c.err \in FatalErrors)
            => /\ c.ret.err = c.err
               /\ ConnOf(c).SyncStatus = SyncStatusFailed
               /\ ConnOf(c).ErrorMessage = c.err
               /\ LogOf(c).Status = LogFailed
               /\ LogOf(c).ErrorMessage = c.err
               /\ LogOf(c).CompletedAt # 0

\* C6: a call on a connection whose platform has no registered provider
\* returns ErrProviderNotFound at once: it creates no SyncLog, changes no
\* row of any table and calls neither a provider nor the encryptor
C6_UnknownPlatformNoEffect ==
    \A p \in Procs :
        LET c == call[p]
        IN  (c.conn.ID # 0 /\ ~(c.conn.Platform \in providers))
            => /\ c.pc \in {"get_provider", "done"}
               /\ Done(p) => /\ c.ret.err = ErrProviderNotFound(c.conn.Platform)
                             /\ ~c.ret.hasStats
               /\ ~c.logCreated
               /\ sync_logs = c.preLogs
               /\ api_connections = c.preConns
               /\ synced_reviews = c.preReviews
               /\ c.called = {}

\* a call on the connection of the platform without provider has returned
C6_Witness ==
    \E p \in Procs :
        /\ Done(p)
        /\ call[p].conn.ID # 0
        /\ call[p].conn.Platform = PlatformInstagram
        /\ call[p].ret.err = ErrProviderNotFound(PlatformInstagram)

\* C7: on every return path of a call that created a SyncLog, the log has
\* left "started" for "completed" or "failed" with completed_at set, by
\* exactly one write
C7_LogClosedOnReturn ==
    \A p \in Procs :
        LET c == call[p]
        IN  (Done(p) /\ c.logCreated)
            => /\ LogOf(c).Status \in {LogCompleted, LogFailed}
               /\ LogOf(c).CompletedAt # 0
               /\ c.logWrites = 1

\* C8: when a call returns without error, its SyncLog is "completed", holds
\* the counts of the SyncStats returned, and its completed_at is the
\* last_sync_at written to the connection
C8_LogMatchesStats ==
    \A p \in Procs :
        LET c == call[p]
        IN  (Done(p) /\ c.ret.err = NoError)
            => /\ LogOf(c).Status = LogCompleted
               /\ LogOf(c).ReviewsFetched = c.ret.stats.TotalFetched
               /\ LogOf(c).ReviewsAdded = c.ret.stats.TotalAdded
               /\ LogOf(c).ReviewsUpdated = c.ret.stats.TotalUpdated
               /\ LogOf(c).CompletedAt = ConnOf(c).LastSyncAt

\* C9: when a call returns without error, the persisted connection is
\* "completed", its last_sync_at is the completion time of this call, later
\* than the one before, and its error_message is empty
C9_SuccessCompletesConnection ==
    \A p \in Procs :
        LET c == call[p]
        IN  (Done(p) /\ c.ret.err = NoError)
            => /\ ConnOf(c).SyncStatus = SyncStatusCompleted
               /\ ConnOf(c).LastSyncAt = c.conn.LastSyncAt
               /\ ConnOf(c).LastSyncAt > c.log.StartedAt
               /\ ConnOf(c).LastSyncAt > c.preConns[c.connectionID].LastSyncAt
               /\ ConnOf(c).ErrorMessage = ""

\* a call has returned without error on a connection that held the error
\* text of an earlier failed sync
C9_Witness ==
    \E p \in Procs :
        LET c == call[p]
        IN  /\ Done(p) /\ c.ret.err = NoError
            /\ c.preConns[c.connectionID].SyncStatus = SyncStatusFailed
            /\ c.preConns[c.connectionID].ErrorMessage # ""
            /\ ConnOf(c).ErrorMessage = ""

\* a SyncConnection call for the connection is in progress
InProgress(p, id) ==
    /\ ~(call[p].pc \in {"idle", "done"})
    /\ call[p].connectionID = id

\* C10: a connection's persisted sync_status is "syncing" only while a
\* SyncConnection call for it is in progress
C10_SyncingOnlyWhileActive ==
    \A id \in ConnIds :
        api_connections[id].SyncStatus = SyncStatusSyncing
        => \E p \in Procs : InProgress(p, id)

\* the items of the call whose insert or update returned an error
FailedItems(c) == {k \in 1..Len(c.outcomes) : c.outcomes[k] = "error"}

\* C18 as stated: when a call reconciled its reviews with per-item
\* persistence errors, every review was attempted, every failure is in the
\* SyncStats returned, and the call ended as a success: nil error,
\* sync_status "completed", last_sync_at advanced
C18_ItemErrorsNeverFail ==
    \A p \in Procs :
        LET c == call[p]
        IN  (Done(p) /\ c.ret.hasStats /\ FailedItems(c) # {})
            => /\ Len(c.outcomes) = Len(c.reviews)
               /\ Len(c.ret.stats.Errors) = Cardinality(FailedItems(c))
               /\ c.ret.err = NoError
               /\ ConnOf(c).SyncStatus = SyncStatusCompleted
               /\ ConnOf(c).LastSyncAt > c.preConns[c.connectionID].LastSyncAt

\* C18: per-item persistence errors never abort reconciliation: when the
\* call returns its SyncStats, an insert or update was attempted for every
\* fetched review, each failure is in SyncStats.Errors and the others are
\* counted as added or updated; the call ends as a success (nil error,
\* "completed", last_sync_at advanced) when the final UpdateAPIConnection
\* succeeds, and returns that write's error with the same SyncStats when
\* it fails
C18_ItemErrorsKept ==
    \A p \in Procs :
        LET c == call[p]
        IN  (Done(p) /\ c.ret.hasStats)
            => /\ Len(c.outcomes) = Len(c.reviews)
               /\ c.ret.stats = c.stats
               /\ Len(c.ret.stats.Errors) = Cardinality(FailedItems(c))
               /\ c.ret.stats.TotalAdded + c.ret.stats.TotalUpdated
                      + Len(c.ret.stats.Errors) = c.ret.stats.TotalFetched
               /\ c.finalWrite \in {"ok", "failed"}
               /\ c.finalWrite = "ok"
                      => /\ c.ret.err = NoError
                         /\ ConnOf(c).SyncStatus = SyncStatusCompleted
                         /\ ConnOf(c).LastSyncAt > c.preConns[c.connectionID].LastSyncAt
               /\ c.finalWrite = "failed" => c.ret.err = ErrDB

\* a call has returned as a success although the write of its first review
\* failed, and it stored its second review after that failure
C18_Witness ==
    \E p \in Procs :
        LET c == call[p]
        IN  /\ Done(p) /\ c.ret.hasStats /\ c.ret.err = NoError
            /\ Len(c.outcomes) = 2
            /\ c.outcomes[1] = "error"
            /\ c.outcomes[2] = "added"
            /\ Len(c.ret.stats.Errors) = 1
            /\ ConnOf(c).SyncStatus = SyncStatusCompleted

\* the call refreshed its token and has gone on to the fetch or beyond
PastRefresh(c) ==
    /\ "Encrypt" \in c.called
    /\ ~(c.pc \in {"idle", "refresh", "persist_tokens"})

\* C19: after a successful refresh, in every state from the start of the
\* fetch onward the connection record holds the newly encrypted access
\* token, the refresh token of the call and the new expiry
C19_RefreshedTokensPersisted ==
    \A p \in Procs :
        LET c == call[p]
        IN  PastRefresh(c)
            => /\ ConnOf(c).AccessToken = Encrypt(c.accessToken)
               /\ ConnOf(c).AccessToken = c.conn.AccessToken
               /\ ConnOf(c).RefreshToken = c.conn.RefreshToken
               /\ ConnOf(c).TokenExpiresAt = c.conn.TokenExpiresAt

\* C20: a call that found its token invalid with no refresh token stored
\* returns the invalid-token error, has called neither RefreshToken nor
\* FetchReviews, and has recorded the failure on the connection ("failed",
\* the error text) and on its SyncLog
C20_InvalidTokenRecorded ==
    \A p \in Procs :
        LET c == call[p]
        IN  (Done(p) /\ c.err = ErrInvalidToken)
            => /\ c.ret.err = ErrInvalidToken
               /\ ~("RefreshToken" \in c.called)
               /\ ~("FetchReviews" \in c.called)
               /\ ConnOf(c).SyncStatus = SyncStatusFailed
               /\ ConnOf(c).ErrorMessage = ErrInvalidToken
               /\ LogOf(c).Status = LogFailed
               /\ LogOf(c).ErrorMessage = ErrInvalidToken

\* both goroutines have returned from calls on the same connection in which
\* each fetched the review id, unseen when either call began
BothFetchedUnseen(id) ==
    /\ \A p \in Procs :
          /\ Done(p) /\ call[p].ret.hasStats
          /\ call[p].connectionID = call[1].connectionID
          /\ Len(call[p].reviews) = 1
          /\ call[p].reviews[1].PlatformReviewID = id
          /\ Len(call[p].outcomes) = 1
          /\ RowsWithKey(call[p].preReviews, call[p].conn.Platform, id) = {}

\* the calls that counted the review as added
AddedBy(id) == {p \in Procs : call[p].outcomes[1] = "added"}

\* C11: when two concurrent calls on one connection both fetched the same
\* unseen review, exactly one row exists for its key afterwards and exactly
\* one call counted it as added; a call whose insert lost the race has the
\* duplicate-key error in SyncStats.Errors and TotalAdded = 0
C11_ConcurrentInsertConverges ==
    \A id \in ReviewIds :
        BothFetchedUnseen(id)
        => /\ Cardinality(RowsWithKey(synced_reviews, call[1].conn.Platform, id)) = 1
           /\ Cardinality(AddedBy(id)) = 1
           /\ \A p \in Procs \ AddedBy(id) :
                 /\ call[p].outcomes[1] \in {"error", "updated"}
                 /\ call[p].ret.stats.TotalAdded = 0
                 /\ call[p].outcomes[1] = "error"
                       => /\ call[p].ret.stats.Errors = <<ErrDuplicateKey>>
                          /\ call[p].ret.stats.TotalUpdated = 0

\* both calls looked the review up before either inserted it: one insert
\* won, the other lost the race
C11_Witness ==
    \E id \in ReviewIds :
        /\ BothFetchedUnseen(id)
        /\ \E p \in Procs : call[p].outcomes[1] = "error"
        /\ \E p \in Procs : call[p].outcomes[1] = "added"

\* the access tokens a refresh stores
RefreshedCiphertexts == {Encrypt(t.AccessToken) : t \in TokenResponses}

\* C12: once the connection record holds a refreshed access token, no
\* write by any SyncConnection call puts back a token stored before the
\* refresh
C12_RefreshedTokenKept ==
    [][\A id \in ConnIds :
          api_connections[id].AccessToken \in RefreshedCiphertexts
          => api_connections'[id].AccessToken \in RefreshedCiphertexts]_vars

\* C13: within a run no task of a later batch begins before every task of
\* the batch before it has delivered its result: every running task
\* belongs to the newest batch, and when the loop turns to the next batch
\* no task runs, the results channel is empty and the collector has
\* received one result per task of the batch
C13_BatchBarrier ==
    \A g \in RunSlots :
    /\ \A p \in Procs : task[p].pc # "none" /\ task[p].run = g
                            => task[p].batch = Len(run[g].batches)
    /\ run[g].pc = "batch"
          => /\ \A p \in Procs : task[p].run = g => task[p].pc = "none"
             /\ run[g].results = <<>>
             /\ run[g].j = Len(run[g].batch)

\* a task of the second batch is inside SyncConnection, after the first
\* batch delivered its result
C13_Witness ==
    \E g \in RunSlots :
    /\ Len(run[g].batches) = 2
    /\ run[g].delivered >= 1
    /\ \E p \in Procs : task[p].pc = "wait" /\ task[p].run = g /\ task[p].batch = 2

\* ceil(n / b)
CeilDiv(n, b) == (n + b - 1) \div b

\* the ids of connections[from..to]
IdsOf(connections, from, to) ==
    [k \in 1..(IF to >= from THEN to - from + 1 ELSE 0) |-> connections[from + k - 1].ID]

\* C14: for N loaded connections and batch size B a run processes
\* ceil(N/B) batches of at most B connections: the k-th batch is the k-th
\* slice of B connections of the list (the last one shorter), so that
\* every loaded connection is in exactly one batch
C14_BatchesPartition ==
    \A g \in RunSlots :
    LET n == Len(run[g].connections)
        b == scheduler.batchSize
    IN  /\ Len(run[g].batches) <= CeilDiv(n, b)
        /\ \A k \in 1..Len(run[g].batches) :
              /\ run[g].batches[k] =
                    IdsOf(run[g].connections, (k - 1) * b + 1, IF k * b > n THEN n ELSE k * b)
              /\ Len(run[g].batches[k]) >= 1
              /\ Len(run[g].batches[k]) <= b
        /\ run[g].pc \in {"return", "finished"}
              => /\ Len(run[g].batches) = CeilDiv(n, b)
                 /\ \A c \in 1..n :
                       Cardinality({<<k, m>> \in (1..Len(run[g].batches)) \X (1..b) :
                                       /\ m <= Len(run[g].batches[k])
                                       /\ run[g].batches[k][m] = run[g].connections[c].ID}) = 1

\* a run over two connections with batch size one has ended after two batches
C14_Witness ==
    \E g \in RunSlots :
    /\ run[g].pc = "finished"
    /\ Len(run[g].connections) = 2
    /\ scheduler.batchSize = 1
    /\ Len(run[g].batches) = 2

\* C15: a connection loaded as "syncing" gets no SyncConnection call in the
\* run and is in neither tally: the run tallies at most, and at its end
\* exactly, the loaded connections that were not syncing
C15_SkipOnBusy ==
    \A g \in RunSlots :
    /\ \A k \in 1..Len(run[g].connections) :
          run[g].connections[k].SyncStatus = SyncStatusSyncing
          => ~(run[g].connections[k].ID \in run[g].calledIds)
    /\ run[g].successCount + run[g].failCount <= Cardinality(NotSyncing(run[g].connections))
    /\ run[g].pc \in {"return", "finished"}
          => run[g].successCount + run[g].failCount
                = Cardinality(NotSyncing(run[g].connections))

\* a run has ended that loaded a syncing connection, skipped it, and
\* tallied the other connection
C15_Witness ==
    \E g \in RunSlots :
    /\ run[g].pc = "finished"
    /\ Len(run[g].connections) = 2
    /\ \E k \in 1..2 : run[g].connections[k].SyncStatus = SyncStatusSyncing
    /\ run[g].delivered = 2
    /\ run[g].successCount + run[g].failCount = 1

\* C16: in every sequence of Start and Stop calls no Stop panics and the
\* stop channel is closed at most once
C16_StopIdempotent ==
    /\ ~scheduler.panicked
    /\ scheduler.closes <= 1

\* C17: no run begins once Stop has signalled the stop channel
C17_NoRunAfterStop == \A g \in RunSlots : ~run[g].afterStop

\* the stored ciphertext is the one Encrypt returned
Intact == enc.tamper = "none"

\* C21: Decrypt(Encrypt(p)) = p without error for every non-empty plaintext p
\* and every encryptor built from a valid key, whatever the nonce; and
\* Encrypt("") = "" and Decrypt("") = "" without error
C21_RoundTrip ==
    /\ enc.pc \in {"stored", "decrypted"} /\ enc.plaintext = <<>>
          => enc.sealed = <<>>
    /\ enc.pc \in {"stored", "decrypted"} /\ enc.plaintext # <<>>
          => enc.sealed # <<>>
    /\ enc.pc = "decrypted" /\ Intact
          => enc.out = enc.plaintext /\ enc.err = NoError
    /\ enc.pc \in {"ready", "stored", "decrypted"} => Len(enc.key) = KeySize

\* a token of the longest length went through Encrypt and Decrypt unchanged
C21_Witness ==
    /\ enc.pc = "decrypted"
    /\ Intact
    /\ Len(enc.plaintext) = MaxPlainLen
    /\ Len(enc.sealed) = 4 * ((NonceSize + MaxPlainLen + TagSize + 2) \div 3)
    /\ enc.out = enc.plaintext

\* the stored ciphertext was changed or cut after Encrypt returned it
Tampered == enc.tamper \in {"mutated", "truncated"}

\* the changed text decodes to the bytes Encrypt sealed
SameBytes == DecodeString(enc.stored) = DecodeString(enc.sealed)

\* C22 as stated: Decrypt returns an error for every single-byte mutation
\* and every truncation of a valid stored ciphertext, and never returns a
\* plaintext other than the encrypted one
C22_TamperAlwaysDetected ==
    /\ enc.pc = "decrypted" /\ Tampered => enc.err # NoError
    /\ enc.pc = "decrypted" /\ enc.err = NoError => enc.out = enc.plaintext

\* C22, amended: for a changed or cut ciphertext Decrypt returns an error
\* and no plaintext, except that a mutation which leaves the decoded bytes
\* as they were (it touches only the bits of the last base64 character that
\* belong to no byte) returns the encrypted plaintext without error, and a
\* truncation to the empty string returns "" without error; a non-empty
\* input never yields a plaintext other than the encrypted one
C22_TamperNeverYieldsOtherPlaintext ==
    enc.pc = "decrypted" /\ Tampered =>
        IF enc.stored = <<>>
        THEN enc.tamper = "truncated" /\ enc.out = <<>> /\ enc.err = NoError
        ELSE IF enc.tamper = "mutated" /\ SameBytes
        THEN /\ enc.out = enc.plaintext
             /\ enc.err = NoError
             /\ Len(DecodeString(enc.sealed).data) % 3 # 0
             /\ \A i \in 1..Len(enc.sealed) :
                   enc.stored[i] # enc.sealed[i]
                       => /\ enc.sealed[i] # PadChar
                          /\ i = Len(enc.sealed) \/ enc.sealed[i + 1] = PadChar
        ELSE enc.err # NoError /\ enc.out = <<>>

\* a byte inside the sealed bytes changed and gcm.Open refused the result
C22_Witness ==
    /\ enc.pc = "decrypted"
    /\ enc.tamper = "mutated"
    /\ DecodeString(enc.stored).ok
    /\ ~SameBytes
    /\ enc.err = ErrOpen

\* the call's refresh succeeded: the new tokens are encrypted only then
Refreshed(c) == "Encrypt" \in c.called

\* the step makes this provider call
Calls(c, d, name) == name \in d.called /\ ~(name \in c.called)

\* C23: the phases of a SyncConnection call follow the order started,
\* token-check, fetching, reconciling, completed or failed: ValidateToken is
\* called only once the SyncLog exists and before any fetch; FetchReviews
\* only after ValidateToken returned true or a refresh succeeded; a review is
\* written only after FetchReviews returned its list; the connection is set
\* "completed" only when every fetched review has been processed; and a
\* call with a fatal error makes no provider call, writes no review, and
\* writes nothing but "failed" to the connection and the SyncLog
C23_PhaseOrder ==
    [][\A p \in Procs :
          LET c == call[p]
              d == call'[p]
              id == c.connectionID
          IN  d # c =>
              /\ Calls(c, d, "ValidateToken")
                    => /\ c.logCreated
                       /\ ~("FetchReviews" \in c.called)
                       /\ c.err = NoError
              /\ Calls(c, d, "FetchReviews")
                    => /\ c.logCreated
                       /\ c.validation = "valid" \/ Refreshed(c)
                       /\ c.err = NoError
                       /\ c.outcomes = <<>>
              /\ synced_reviews' # synced_reviews
                    => /\ "FetchReviews" \in c.called
                       /\ c.stats.TotalFetched = Len(c.reviews)
                       /\ c.i \in 1..Len(c.reviews)
                       /\ c.err = NoError
                       /\ c.finalWrite = "none"
              /\ d.finalWrite = "ok" /\ c.finalWrite = "none"
                    => /\ "FetchReviews" \in c.called
                       /\ Len(c.outcomes) = Len(c.reviews)
                       /\ c.err = NoError
                       /\ api_connections'[id].SyncStatus = SyncStatusCompleted
              /\ c.err # NoError
                    => /\ d.called \subseteq c.called
                       /\ synced_reviews' = synced_reviews
                       /\ d.finalWrite = "none"
                       /\ api_connections' # api_connections
                             => api_connections'[id].SyncStatus = SyncStatusFailed
                       /\ sync_logs' # sync_logs
                             => sync_logs'[c.log.ID].Status = LogFailed]_vars

\* a call found its token invalid, refreshed it, fetched two reviews, wrote
\* both and completed
C23_Witness ==
    \E p \in Procs :
        LET c == call[p]
        IN  /\ Done(p) /\ c.ret.err = NoError
            /\ c.validation = "invalid"
            /\ Refreshed(c)
            /\ Len(c.outcomes) = 2
            /\ c.finalWrite = "ok"

\* the call found its connection and a provider for its platform
Resolved(c) == c.conn # NoConn /\ ProviderRegistered(c.conn.Platform)

\* a step of the call that adds to sync_logs adds one row, the first of the
\* call, with status "started", the caller's sync type and the connection
\* id, while the call has neither touched the connection nor called a
\* provider
CreatesItsLog(p) ==
    LET c == call[p]
        d == call'[p]
    IN  d # c /\ Len(sync_logs') # Len(sync_logs)
        => /\ Len(sync_logs') = Len(sync_logs) + 1
           /\ ~c.logCreated /\ d.logCreated
           /\ d.log = sync_logs'[Len(sync_logs')]
           /\ d.log.Status = LogStarted
           /\ d.log.SyncType = CallerSyncType(p)
           /\ d.log.APIConnectionID = c.connectionID
           /\ c.conn = c.preConns[c.connectionID]
           /\ api_connections' = api_connections
           /\ c.called = {}

\* a step of the call that writes the connection (to mark it "syncing" or
\* later) or calls a provider comes after the call created its SyncLog
LogComesFirst(p) ==
    LET c == call[p]
        d == call'[p]
    IN  d # c /\ (api_connections' # api_connections \/ d.called # c.called
                    \/ d.conn.SyncStatus # c.conn.SyncStatus)
              /\ c.pc # "idle" /\ d.pc # "idle"
        => c.logCreated

\* C24 as stated: every call that resolves its connection and provider
\* creates exactly one SyncLog, "started" and of the caller's sync type,
\* before it marks the connection "syncing" and before any provider call
C24_ExactlyOneLog ==
    [][\A p \in Procs :
          /\ CreatesItsLog(p)
          /\ LogComesFirst(p)
          /\ call'[p].pc = "done" /\ Resolved(call'[p])
                => call'[p].logCreated]_vars

\* C24, amended: every call that resolves its connection and provider makes
\* one CreateSyncLog call, for a SyncLog "started" and of the caller's sync
\* type, before it marks the connection "syncing" and before any provider
\* call; when CreateSyncLog succeeds the call has created exactly one
\* SyncLog, and when it fails the call returns that error having created
\* none, left the connection as it was and called no provider
C24_OneLogUnlessCreateFails ==
    [][\A p \in Procs :
          /\ CreatesItsLog(p)
          /\ LogComesFirst(p)
          /\ call'[p].pc = "done" /\ Resolved(call'[p])
                => \/ call'[p].logCreated
                   \/ /\ call'[p].ret.err = ErrDB
                      /\ ~call'[p].ret.hasStats
                      /\ call'[p].called = {}
                      /\ call'[p].conn = call'[p].preConns[call'[p].connectionID]
                      /\ call'[p].log = NoLog]_vars

\* a manual call and a scheduled call have each created their SyncLog, of
\* their own type, and both have returned
C24_Witness ==
    /\ Done(1) /\ Done(2)
    /\ call[1].logCreated /\ call[2].logCreated
    /\ call[1].log.ID # call[2].log.ID
    /\ sync_logs[call[1].log.ID].SyncType = SyncTypeManual
    /\ sync_logs[call[2].log.ID].SyncType = SyncTypeScheduled
    /\ Len(sync_logs) = 2

\* the tokens of a connection record
TokensOf(conn) ==
    <<conn.AccessToken, conn.RefreshToken, conn.TokenExpiresAt>>

\* C25: a call whose stored access token fails to decrypt goes straight to
\* failed: it calls neither ValidateToken nor RefreshToken nor FetchReviews,
\* writes no review, leaves the stored tokens as they were, and returns the
\* decryption error
C25_DecryptFailureAborts ==
    \A p \in Procs :
        LET c == call[p]
        IN  c.err = ErrDecrypt
            => /\ c.pc \in {"err_conn", "err_log", "done"}
               /\ c.called = {"Decrypt"}
               /\ c.validation = ""
               /\ synced_reviews = c.preReviews
               /\ TokensOf(ConnOf(c)) = TokensOf(c.preConns[c.connectionID])
               /\ Done(p) => c.ret.err = ErrDecrypt /\ ~c.ret.hasStats

\* a call on a connection whose access token does not decrypt has returned
\* the decryption error, the failure written to the connection
C25_Witness ==
    \E p \in Procs :
        LET c == call[p]
        IN  /\ Done(p)
            /\ c.ret.err = ErrDecrypt
            /\ ~DecryptOK(ConnOf(c).AccessToken)
            /\ ConnOf(c).SyncStatus = SyncStatusFailed
            /\ ConnOf(c).ErrorMessage = ErrDecrypt

\* the access tokens a successful refresh may return
RefreshedTokens == {t.AccessToken : t \in TokenResponses}

\* C26: a ValidateToken call that returns an error is handled like one that
\* returns false: with a refresh token stored the next provider call is
\* RefreshToken, and after a successful refresh FetchReviews gets the
\* access token the refresh returned, not the one that failed validation
\* (unless the provider returned that very token again); when
\* ValidateToken returns true the call makes no RefreshToken call and no
\* step of it changes the stored tokens
C26_ValidationErrorLikeFalse ==
    [][\A p \in Procs :
          LET c == call[p]
              d == call'[p]
              id == c.connectionID
          IN  d # c =>
              /\ Calls(c, d, "ValidateToken") /\ d.validation \in {"invalid", "error"}
                    => IF c.conn.RefreshToken # ""
                       THEN d.pc = "refresh" /\ d.err = NoError
                       ELSE d.pc = "err_conn" /\ d.err = ErrInvalidToken
              /\ c.pc = "refresh"
                    => /\ c.validation \in {"invalid", "error"}
                       /\ Calls(c, d, "RefreshToken")
              /\ Calls(c, d, "FetchReviews") /\ Refreshed(c)
                    => /\ d.fetchToken \in RefreshedTokens
                       /\ Encrypt(d.fetchToken) = c.conn.AccessToken
                       /\ \/ d.fetchToken # Decrypt(c.preConns[id].AccessToken)
                          \/ Decrypt(c.preConns[id].AccessToken) \in RefreshedTokens
              /\ Calls(c, d, "FetchReviews") /\ ~Refreshed(c)
                    => /\ c.validation = "valid"
                       /\ d.fetchToken = Decrypt(c.preConns[id].AccessToken)
              /\ c.validation = "valid"
                    => /\ ~("RefreshToken" \in d.called) \/ d.pc = "idle"
                       /\ TokensOf(api_connections'[id]) = TokensOf(api_connections[id])]_vars

\* C27: FetchReviews is called with since equal to the connection's
\* last_sync_at as the call read it at its start (the zero time when the
\* connection never completed a sync), and the stored last_sync_at is only
\* ever set by a sync that completes, to its completion time, so that the
\* next sync's since is the completion time of the previous successful sync
\* and never a time from a failed sync
C27_SinceIsLastSuccessfulSync ==
    [][\A p \in Procs :
          LET c == call[p]
              d == call'[p]
              id == c.connectionID
          IN  d # c /\ id \in ConnIds =>
              /\ Calls(c, d, "FetchReviews")
                    => /\ d.since = c.preConns[id].LastSyncAt
                       /\ d.since = c.conn.LastSyncAt
              /\ api_connections'[id].LastSyncAt # api_connections[id].LastSyncAt
                    => /\ c.finalWrite = "none" /\ d.finalWrite = "ok"
                       /\ c.err = NoError
                       /\ api_connections'[id].LastSyncAt = clock'
                       /\ clock' > api_connections[id].LastSyncAt]_vars

\* how many of the reviews the call processed had this outcome
Outcomes(c, kind) == Cardinality({k \in 1..Len(c.outcomes) : c.outcomes[k] = kind})

\* C30: in the SyncStats a call returns, TotalFetched = TotalAdded +
\* TotalUpdated + len(Errors), and each fetched review is counted once, as
\* added, as updated or as an error, according to what happened to it
C30_StatsAddUp ==
    \A p \in Procs :
        LET c == call[p]
            stats == c.ret.stats
        IN  Done(p) /\ c.ret.hasStats
            => /\ stats.TotalFetched
                     = stats.TotalAdded + stats.TotalUpdated + Len(stats.Errors)
               /\ stats.TotalFetched = Len(c.reviews)
               /\ Len(c.outcomes) = Len(c.reviews)
               /\ stats.TotalAdded = Outcomes(c, "added")
               /\ stats.TotalUpdated = Outcomes(c, "updated")
               /\ Len(stats.Errors) = Outcomes(c, "error")

\* a call returned its stats together with the error of its last write: of
\* two fetched reviews one was updated and one failed
C30_Witness ==
    \E p \in Procs :
        LET c == call[p]
        IN  /\ Done(p) /\ c.ret.hasStats
            /\ c.ret.err # NoError
            /\ c.ret.stats.TotalFetched = 2
            /\ c.ret.stats.TotalUpdated = 1
            /\ Len(c.ret.stats.Errors) = 1

\* last_sync_at a is no later than b, null counting as earliest
NotLater(a, b) == a = 0 \/ (b # 0 /\ a <= b)

\* the last_sync_at the run of slot g loaded for a connection
LoadedLastSyncAt(g, id) ==
    LET k == CHOOSE k \in 1..Len(run[g].connections) : run[g].connections[k].ID = id
    IN  run[g].connections[k].LastSyncAt

\* C28: a run loads the active connections only, never-synced ones first
\* and then oldest-synced first; its batches follow that order: no
\* connection of a batch has a loaded last_sync_at later than one of the
\* next batch; and no inactive connection gets a task or a SyncConnection
\* call from the run
C28_OldestSyncedFirst ==
    \A g \in RunSlots :
    /\ \A k \in 1..Len(run[g].connections) :
          /\ run[g].connections[k].IsActive
          /\ api_connections[run[g].connections[k].ID].IsActive
    /\ \A a, b \in 1..Len(run[g].connections) :
          a < b => NotLater(run[g].connections[a].LastSyncAt,
                            run[g].connections[b].LastSyncAt)
    /\ \A k \in 1..(Len(run[g].batches) - 1) :
          \A x \in 1..Len(run[g].batches[k]), y \in 1..Len(run[g].batches[k + 1]) :
             NotLater(LoadedLastSyncAt(g, run[g].batches[k][x]),
                      LoadedLastSyncAt(g, run[g].batches[k + 1][y]))
    /\ \A id \in ConnIds :
          ~api_connections[id].IsActive
          => /\ run[g].callsOf[id] = 0
             /\ \A p \in Procs : task[p].pc # "none" => task[p].connection.ID # id
             /\ \A k \in 1..Len(run[g].batches) :
                   \A x \in 1..Len(run[g].batches[k]) : run[g].batches[k][x] # id

\* a run with batch size one has put the never-synced second connection in
\* its first batch and the synced first connection in its second
C28_Witness ==
    \E g \in RunSlots :
    /\ run[g].pc = "finished"
    /\ scheduler.batchSize = 1
    /\ run[g].batches = <<(<<2>>), (<<1>>)>>
    /\ LoadedLastSyncAt(g, 2) = 0
    /\ LoadedLastSyncAt(g, 1) # 0

\* C29: within a run each loaded connection gets at most one SyncConnection
\* call, also when that call failed, and when the run ends its success
\* count plus its failure count is the number of loaded connections that
\* were not skipped, each of which got its one call
C29_OneCallPerConnection ==
    \A g \in RunSlots :
    /\ \A id \in ConnIds : run[g].callsOf[id] <= 1
    /\ \A id \in ConnIds :
          run[g].callsOf[id] = 1 => \E k \in 1..Len(run[g].connections) :
                                    run[g].connections[k].ID = id
    /\ run[g].pc \in {"return", "finished"}
          => LET synced == {k \in 1..Len(run[g].connections) :
                               run[g].callsOf[run[g].connections[k].ID] = 1}
             IN  /\ run[g].successCount + run[g].failCount = Cardinality(synced)
                 /\ run[g].delivered = Len(run[g].connections)
                 /\ Len(run[g].connections) - Cardinality(synced)
                       = run[g].delivered - run[g].successCount - run[g].failCount

\* a run has ended in which the SyncConnection call for a connection
\* failed: the connection got that one call and is in the failure count
C29_Witness ==
    \E g \in RunSlots :
    /\ run[g].pc = "finished"
    /\ run[g].failCount >= 1
    /\ run[g].successCount >= 1
    /\ \A id \in ConnIds : run[g].callsOf[id] = 1

\* the call of goroutine p is on its failure path: handleSyncError runs
Failing(p) == call[p].pc \in {"err_conn", "err_log"}

\* C31: a SyncConnection call that fails (decrypt, refresh or fetch failure,
\* or a token it cannot refresh) has written no SyncedReview, and its
\* handleSyncError leaves last_sync_at of every connection and every stored
\* SyncedReview as they were
C31_FailedCallKeepsLastSync ==
    [][\A p \in Procs :
          Failing(p) /\ call'[p] # call[p] =>
              /\ call[p].outcomes = <<>>
              /\ synced_reviews' = synced_reviews
              /\ \A id \in ConnIds :
                    api_connections'[id].LastSyncAt
                        = api_connections[id].LastSyncAt]_vars

\* the call of goroutine p found its connection already marked syncing
ReadSyncing(p) ==
    /\ call[p].pc # "idle"
    /\ call[p].conn.ID # 0
    /\ call[p].preConns[call[p].conn.ID].SyncStatus = SyncStatusSyncing

C37_RefreshTokenKept ==
    [][\A p \in Procs :
          LET c == call[p]
              id == c.connectionID
              resp == c.tokenResp
          IN  call'[p] # c /\ id \in ConnIds =>
              /\ c.pc = "persist_tokens" /\ faults' = faults
                    => /\ api_connections'[id].AccessToken = Encrypt(resp.AccessToken)
                       /\ api_connections'[id].TokenExpiresAt = c.conn.TokenExpiresAt
                       /\ api_connections'[id].RefreshToken
                             = IF resp.RefreshToken = ""
                               THEN api_connections[id].RefreshToken
                               ELSE Encrypt(resp.RefreshToken)
              /\ api_connections'[id].RefreshToken # api_connections[id].RefreshToken
                    => /\ resp.RefreshToken # ""
                       /\ api_connections'[id].RefreshToken
                             = Encrypt(resp.RefreshToken)]_vars

\* C38: when a sync updates a stored SyncedReview, the row takes author
\* name, author photo, rating, text, reply and metadata from the fetched
\* review and is_visible = true whatever it held; its id, merchant_id,
\* api_connection_id, platform, platform_review_id and reviewed_at, the
\* other rows and the number of rows stay as they were
C38_UpdateKeepsIdentity ==
    [][\A p \in Procs :
          LET c == call[p]
              k == c.existing
              review == c.reviews[c.i]
              old == synced_reviews[k]
              new == synced_reviews'[k]
          IN  (/\ c.pc = "write" /\ ~c.lookupErr /\ k # 0
               /\ call'[p].stats.TotalUpdated = c.stats.TotalUpdated + 1)
              => /\ Len(synced_reviews') = Len(synced_reviews)
                 /\ \A j \in 1..Len(synced_reviews) :
                       j # k => synced_reviews'[j] = synced_reviews[j]
                 /\ new.AuthorName = review.AuthorName
                 /\ new.AuthorPhotoURL = review.AuthorPhotoURL
                 /\ new.Rating = review.Rating
                 /\ new.ReviewText = review.ReviewText
                 /\ new.ReviewReply = review.ReviewReply
                 /\ new.Metadata = review.Metadata
                 /\ new.IsVisible
                 /\ new.ID = old.ID
                 /\ new.MerchantID = old.MerchantID
                 /\ new.APIConnectionID = old.APIConnectionID
                 /\ new.Platform = old.Platform
                 /\ new.PlatformReviewID = old.PlatformReviewID
                 /\ new.ReviewedAt = old.ReviewedAt]_vars

\* a call has updated a hidden row of another merchant with a fetched review
\* of other content: the row is visible, holds the new text, and still has
\* its merchant, its null connection and its reviewed_at
C38_Witness ==
    \E p \in Procs :
        LET c == call[p]
        IN  /\ Done(p)
            /\ c.ret.stats.TotalUpdated = 1
            /\ ~c.preReviews[1].IsVisible
            /\ synced_reviews[1].IsVisible
            /\ synced_reviews[1].ReviewText # c.preReviews[1].ReviewText
            /\ synced_reviews[1].MerchantID # c.conn.MerchantID
            /\ synced_reviews[1].APIConnectionID = 0
            /\ synced_reviews[1].ReviewedAt = c.preReviews[1].ReviewedAt
            /\ \E i \in 1..Len(c.reviews) :
                  /\ c.reviews[i].PlatformReviewID = synced_reviews[1].PlatformReviewID
                  /\ c.reviews[i].ReviewedAt # synced_reviews[1].ReviewedAt

\* the periodic goroutines that are alive: those in their select and those
\* inside a runSync they called
PeriodicLoops ==
    scheduler.periodic
        + Cardinality({g \in RunSlots : RunInProgress(g) /\ run[g].runner = "periodic"})

\* C33: after any sequence of Start and Stop calls isRunning, which
\* GetStatus reports as is_running, is true exactly when one periodic
\* goroutine is alive whose ticker ticks and whose stop channel is open, so
\* that its next tick runs a sync: a second Start starts no second loop and
\* a Start after a Stop resumes the periodic syncs
C33_RunningIffOneLoop ==
    scheduler.isRunning <=> /\ PeriodicLoops = 1
                            /\ scheduler.ticker = "ticking"
                            /\ scheduler.stopChan = "open"

\* the SyncConnection calls of two tasks for one connection are in progress
SameConnectionTwice ==
    \E p, q \in Procs :
       /\ p # q
       /\ task[p].pc = "wait"
       /\ task[q].pc = "wait"
       /\ task[p].connection.ID = task[q].connection.ID

\* C34: at most one runSync executes at any time, the one of the warm-up
\* goroutine and those of the periodic goroutine never overlap, and no two
\* tasks of the scheduler are inside SyncConnection for one connection
C34_OneRunAtATime ==
    /\ Cardinality({g \in RunSlots : RunInProgress(g)}) <= 1
    /\ ~SameConnectionTwice

\* C32: whatever interval and batch size NewScheduler took from the
\* environment, Start does not panic and no run panics or goes round its
\* batch loop without end: a run that takes at least one connection per
\* batch has no more batches than it loaded connections
C32_StartAndRunsEnd ==
    /\ ~scheduler.panicked
    /\ \A g \in RunSlots : Len(run[g].batches) <= Len(run[g].connections)

\* C35: a run that has gone through its batches has called SyncConnection
\* for every connection it loaded for which no call was in progress when
\* it loaded them, whatever marker an earlier call left in sync_status
C35_NoStaleSkip ==
    \A g \in RunSlots :
       run[g].pc \in {"return", "finished"}
       => \A k \in 1..Len(run[g].connections) :
             run[g].connections[k].ID \notin run[g].busy
             => run[g].connections[k].ID \in run[g].calledIds

====
